---- MODULE Spec2Model ----
(***************************************************************************)
(* Model of the librescoot bluetooth-service: the USOCK frame codec and    *)
(* serial endpoint (pkg/usock), the inbound message router and the         *)
(* store-driven outbound path (pkg/service), and the store adapter         *)
(* (pkg/redis).                                                            *)
(***************************************************************************)
EXTENDS Integers, Sequences, FiniteSets, TLC

VARIABLES
    \* --- USOCK receive state machine (usock.USOCK) ---
    usock,          \* the receiver's fields of usock.USOCK: state, frame, buffer
    handlerCalls,   \* the Payloads handed to u.handler, with the RX log line
    \* --- serial line looped from WriteWithFrameID to readLoop ---
    line,           \* bytes in flight towards readLoop
    phase,          \* position of the codec scenario
    txId, txData,   \* arguments of the WriteWithFrameID call
    garbage,        \* bytes on the line before the frame
    noisePos,       \* position in the frame of the byte the line corrupted, 0 = none
    \* --- concurrent callers of USOCK.WriteWithFrameID ---
    mu,             \* u.mu: the task holding the mutex, NoTask when free
    wpc,            \* position of each caller inside WriteWithFrameID
    wargs,          \* each caller's arguments: id, data
    wframe,         \* each caller's local completeFrame
    wn,             \* bytes of its frame each caller's port.Write has written
    wret,           \* each caller's return value
    port,           \* the bytes written to the serial port, in order
    portOpen,       \* FALSE once the serial device has failed
    \* --- service, store and subscribers (pkg/service, pkg/redis) ---
    pool,           \* the envelopes the nRF52 may send in this run
    store,          \* the store's hashes: <<key, field>> -> string
    lists,          \* the store's lists, as the LPUSHes made, in order
    chans,          \* per subscribed channel, the notifications not yet consumed
    nrx,            \* frames the receive task has completed so far
    pending,        \* handler tasks started by processByte and not yet run
    handled,        \* the handler invocations that ran, in the order they ran
    npub,           \* publishes made by external producers so far
    notified,       \* the notifications the subscriber tasks consumed, in order
    sent,           \* outbound messages handed to WriteWithFrameID, in order
    cmds,           \* the list scooter:bluetooth, leftmost element first
    popped,         \* the commands WatchRedisCommands popped, in pop order
    \* --- the loop of calculateCRC16 ---
    crcData,        \* the bytes of data the loop has consumed
    crcAcc,         \* the local crc
    \* --- main and the tasks it starts ---
    mainPc,         \* position of main
    mainLog,        \* the calls main made that send frames, with their outcome
    stopCh,         \* Service.stopCh is closed
    watcher,        \* position of the WatchRedisCommands task
    subscribers,    \* the channels whose subscriber task is running
    stopChan,       \* USOCK.stopChan is closed
    reader,         \* position of the readLoop task
    portClosed,     \* u.port.Close() has been called
    redisClosed     \* redisClient.Close() has been called

codecVars == <<usock, handlerCalls, line, phase, txId, txData, garbage, noisePos>>
writerVars == <<mu, wpc, wargs, wframe, wn, wret, port, portOpen>>

serviceVars ==
    <<pool, store, lists, chans, nrx, pending, handled, npub, notified, sent, cmds, popped>>

\* the loop of calculateCRC16
crcVars == <<crcData, crcAcc>>

\* the tasks main starts and the channels and handles that end them
taskVars ==
    <<mainPc, mainLog, stopCh, watcher, subscribers, stopChan, reader, portClosed,
      redisClosed>>

vars == <<codecVars, crcVars, writerVars, serviceVars, taskVars>>

(***************************************************************************)
(* Bit operations on non-negative integers.                                *)
(***************************************************************************)
RECURSIVE BitXor(_, _)
BitXor(a, b) ==
    IF a = 0 THEN b
    ELSE IF b = 0 THEN a
    ELSE (((a % 2) + (b % 2)) % 2) + 2 * BitXor(a \div 2, b \div 2)

RECURSIVE BitAnd(_, _)
BitAnd(a, b) ==
    IF a = 0 \/ b = 0 THEN 0
    ELSE ((a % 2) * (b % 2)) + 2 * BitAnd(a \div 2, b \div 2)

RECURSIVE BitOr(_, _)
BitOr(a, b) ==
    IF a = 0 THEN b
    ELSE IF b = 0 THEN a
    ELSE (IF a % 2 = 1 \/ b % 2 = 1 THEN 1 ELSE 0) + 2 * BitOr(a \div 2, b \div 2)

Byte == 0..255

(***************************************************************************)
(* pkg/usock constants.                                                    *)
(***************************************************************************)
MaxPayloadLength == 1024
SyncByte1 == 246
SyncByte2 == 217

StateSync1 == 0
StateSync2 == 1
StateFrameID == 2
StatePayloadLen1 == 3
StatePayloadLen2 == 4
StateHeaderCRC1 == 5
StateHeaderCRC2 == 6
StatePayload == 7
StatePayloadCRC1 == 8
StatePayloadCRC2 == 9

\* CRC-16/ARC lookup table (index i of the source is element i+1 here)
crc16Table == <<
    0, 49345, 49537, 320, 49921, 960, 640, 49729, 50689, 1728, 1920, 51009,
    1280, 50625, 50305, 1088, 52225, 3264, 3456, 52545, 3840, 53185, 52865, 3648,
    2560, 51905, 52097, 2880, 51457, 2496, 2176, 51265, 55297, 6336, 6528, 55617,
    6912, 56257, 55937, 6720, 7680, 57025, 57217, 8000, 56577, 7616, 7296, 56385,
    5120, 54465, 54657, 5440, 55041, 6080, 5760, 54849, 53761, 4800, 4992, 54081,
    4352, 53697, 53377, 4160, 61441, 12480, 12672, 61761, 13056, 62401, 62081, 12864,
    13824, 63169, 63361, 14144, 62721, 13760, 13440, 62529, 15360, 64705, 64897, 15680,
    65281, 16320, 16000, 65089, 64001, 15040, 15232, 64321, 14592, 63937, 63617, 14400,
    10240, 59585, 59777, 10560, 60161, 11200, 10880, 59969, 60929, 11968, 12160, 61249,
    11520, 60865, 60545, 11328, 58369, 9408, 9600, 58689, 9984, 59329, 59009, 9792,
    8704, 58049, 58241, 9024, 57601, 8640, 8320, 57409, 40961, 24768, 24960, 41281,
    25344, 41921, 41601, 25152, 26112, 42689, 42881, 26432, 42241, 26048, 25728, 42049,
    27648, 44225, 44417, 27968, 44801, 28608, 28288, 44609, 43521, 27328, 27520, 43841,
    26880, 43457, 43137, 26688, 30720, 47297, 47489, 31040, 47873, 31680, 31360, 47681,
    48641, 32448, 32640, 48961, 32000, 48577, 48257, 31808, 46081, 29888, 30080, 46401,
    30464, 47041, 46721, 30272, 29184, 45761, 45953, 29504, 45313, 29120, 28800, 45121,
    20480, 37057, 37249, 20800, 37633, 21440, 21120, 37441, 38401, 22208, 22400, 38721,
    21760, 38337, 38017, 21568, 39937, 23744, 23936, 40257, 24320, 40897, 40577, 24128,
    23040, 39617, 39809, 23360, 39169, 22976, 22656, 38977, 34817, 18624, 18816, 35137,
    19200, 35777, 35457, 19008, 19968, 36545, 36737, 20288, 36097, 19904, 19584, 35905,
    17408, 33985, 34177, 17728, 34561, 18368, 18048, 34369, 33281, 17088, 17280, 33601,
    16640, 33217, 32897, 16448
>>

crcStep_NoShift(crc, b) ==
    LET idx == BitAnd(BitXor(crc, b) % 65536, 255)
    IN  BitXor(crc % 256, crc16Table[idx + 1])
\* one iteration of the loop of calculateCRC16
crcStep(crc, b) ==
    LET idx == BitAnd(BitXor(crc, b) % 65536, 255)
    IN  BitXor(crc \div 256, crc16Table[idx + 1])

\* the loop of calculateCRC16 over data[lo..hi]
RECURSIVE crcRange(_, _, _, _)
crcRange(data, lo, hi, crc) ==
    IF lo > hi THEN crc
    ELSE IF lo = hi THEN crcStep(crc, data[lo])
    ELSE LET mid  == (lo + hi) \div 2
             left == crcRange(data, lo, mid, crc)
         IN  IF left >= 0 THEN crcRange(data, mid + 1, hi, left) ELSE left

calculateCRC16(data, seed) == crcRange(data, 1, Len(data), seed)

(***************************************************************************)
(* USOCK.WriteWithFrameID: the bytes handed to port.Write, or an error.    *)
(***************************************************************************)
WriteWithFrameID_HeaderInPayloadCRC(frameID, data) ==
    IF Len(data) > MaxPayloadLength
    THEN [err |-> TRUE, bytes |-> <<>>]
    ELSE LET PayloadLen == Len(data) % 65536
             header     == <<SyncByte1, SyncByte2, frameID,
                             PayloadLen % 256, (PayloadLen \div 256) % 256>>
             HeaderCRC  == calculateCRC16(header, 0)
             PayloadCRC == calculateCRC16(data, HeaderCRC)
         IN  [err   |-> FALSE,
              bytes |-> header
                        \o <<BitAnd(HeaderCRC, 255), BitAnd(HeaderCRC \div 256, 255)>>
                        \o data
                        \o <<BitAnd(PayloadCRC, 255), BitAnd(PayloadCRC \div 256, 255)>>]
WriteWithFrameID(frameID, data) ==
    IF Len(data) > MaxPayloadLength
    THEN [err |-> TRUE, bytes |-> <<>>]
    ELSE LET PayloadLen == Len(data) % 65536
             header     == <<SyncByte1, SyncByte2, frameID,
                             PayloadLen % 256, (PayloadLen \div 256) % 256>>
             HeaderCRC  == calculateCRC16(header, 0)
             PayloadCRC == calculateCRC16(data, 0)
         IN  [err   |-> FALSE,
              bytes |-> header
                        \o <<BitAnd(HeaderCRC, 255), BitAnd(HeaderCRC \div 256, 255)>>
                        \o data
                        \o <<BitAnd(PayloadCRC, 255), BitAnd(PayloadCRC \div 256, 255)>>]

(***************************************************************************)
(* USOCK.processByte.  u is the record of the receiver's fields; the       *)
(* result carries the new fields and the handler invocations made.         *)
(***************************************************************************)
ZeroFrame == [ID |-> 0, PayloadLen |-> 0, HeaderCRC |-> 0, Payload |-> <<>>, PayloadCRC |-> 0]

\* the length check made on the last length byte
PayloadLenTooLong(len) == len > MaxPayloadLength

HeaderCRCValid_Skip(buf, received) == TRUE
\* the header CRC comparison of StateHeaderCRC2
HeaderCRCValid(buf, received) == calculateCRC16(buf, 0) = received

PayloadCRCValid_Skip(buf, received) == TRUE
\* the payload CRC comparison of StatePayloadCRC2
PayloadCRCValid(buf, received) == calculateCRC16(buf, 0) = received

\* the end-of-payload test of StatePayload
PayloadComplete(payload, len) == (Len(payload) % 65536) >= len

\* the Payload handed to the handler, with the values of the "RX Frame" log line
HandlerCall(f) ==
    [ID |-> f.ID, Data |-> f.Payload, Size |-> Len(f.Payload),
     Len |-> f.PayloadLen, HeaderCRC |-> f.HeaderCRC, PayloadCRC |-> f.PayloadCRC]

processByte_Recredit(u, b) ==
    LET keep(v) == [u |-> v, calls |-> <<>>]
    IN
    CASE u.state = StateSync1 ->
            IF b = SyncByte1
            THEN keep([u EXCEPT !.state = StateSync2, !.buffer = <<b>>])
            ELSE keep(u)
      [] u.state = StateSync2 ->
            IF b = SyncByte2
            THEN keep([u EXCEPT !.state = StateFrameID, !.buffer = Append(@, b)])
            ELSE IF b = SyncByte1
            THEN keep([u EXCEPT !.state = StateSync2, !.buffer = <<b>>])
            ELSE keep([u EXCEPT !.state = StateSync1])
      [] u.state = StateFrameID ->
            keep([u EXCEPT !.frame.ID = b, !.buffer = Append(@, b),
                           !.state = StatePayloadLen1])
      [] u.state = StatePayloadLen1 ->
            keep([u EXCEPT !.frame.PayloadLen = b, !.buffer = Append(@, b),
                           !.state = StatePayloadLen2])
      [] u.state = StatePayloadLen2 ->
            LET len == BitOr(u.frame.PayloadLen, (b * 256) % 65536)
                buf == Append(u.buffer, b)
            IN  keep([u EXCEPT !.frame.PayloadLen = len,
                               !.buffer = buf,
                               !.frame.HeaderCRC = calculateCRC16(buf, 0),
                               !.state = IF PayloadLenTooLong(len)
                                         THEN StateSync1 ELSE StateHeaderCRC1])
      [] u.state = StateHeaderCRC1 ->
            keep([u EXCEPT !.frame.HeaderCRC = b, !.state = StateHeaderCRC2])
      [] u.state = StateHeaderCRC2 ->
            LET crc == BitOr(u.frame.HeaderCRC, (b * 256) % 65536)
            IN  IF ~HeaderCRCValid(u.buffer, crc)
                THEN keep([u EXCEPT !.frame.HeaderCRC = crc, !.state = StateSync1])
                ELSE keep([u EXCEPT !.frame.HeaderCRC = crc,
                                    !.frame.Payload = <<>>,
                                    !.buffer = <<>>,
                                    !.state = StatePayload])
      [] u.state = StatePayload ->
            LET payload == Append(u.frame.Payload, b)
                buf     == Append(u.buffer, b)
            IN  IF PayloadComplete(payload, u.frame.PayloadLen)
                THEN keep([u EXCEPT !.frame.Payload = payload, !.buffer = buf,
                                    !.state = StatePayloadCRC1,
                                    !.frame.PayloadCRC = calculateCRC16(buf, 0)])
                ELSE keep([u EXCEPT !.frame.Payload = payload, !.buffer = buf])
      [] u.state = StatePayloadCRC1 ->
            keep([u EXCEPT !.frame.PayloadCRC = b, !.state = StatePayloadCRC2])
      [] u.state = StatePayloadCRC2 ->
            LET crc == BitOr(u.frame.PayloadCRC, (b * 256) % 65536)
                f   == [u.frame EXCEPT !.PayloadCRC = crc]
            IN  IF ~PayloadCRCValid(u.buffer, crc)
                THEN keep([u EXCEPT !.frame = f, !.state = StateSync1])
                ELSE [u     |-> [u EXCEPT !.frame = f, !.state = StateSync1],
                      calls |-> <<HandlerCall(f)>>]
processByte(u, b) ==
    LET keep(v) == [u |-> v, calls |-> <<>>]
    IN
    CASE u.state = StateSync1 ->
            IF b = SyncByte1
            THEN keep([u EXCEPT !.state = StateSync2, !.buffer = <<b>>])
            ELSE keep(u)
      [] u.state = StateSync2 ->
            IF b = SyncByte2
            THEN keep([u EXCEPT !.state = StateFrameID, !.buffer = Append(@, b)])
            ELSE keep([u EXCEPT !.state = StateSync1])
      [] u.state = StateFrameID ->
            keep([u EXCEPT !.frame.ID = b, !.buffer = Append(@, b),
                           !.state = StatePayloadLen1])
      [] u.state = StatePayloadLen1 ->
            keep([u EXCEPT !.frame.PayloadLen = b, !.buffer = Append(@, b),
                           !.state = StatePayloadLen2])
      [] u.state = StatePayloadLen2 ->
            LET len == BitOr(u.frame.PayloadLen, (b * 256) % 65536)
                buf == Append(u.buffer, b)
            IN  keep([u EXCEPT !.frame.PayloadLen = len,
                               !.buffer = buf,
                               !.frame.HeaderCRC = calculateCRC16(buf, 0),
                               !.state = IF PayloadLenTooLong(len)
                                         THEN StateSync1 ELSE StateHeaderCRC1])
      [] u.state = StateHeaderCRC1 ->
            keep([u EXCEPT !.frame.HeaderCRC = b, !.state = StateHeaderCRC2])
      [] u.state = StateHeaderCRC2 ->
            LET crc == BitOr(u.frame.HeaderCRC, (b * 256) % 65536)
            IN  IF ~HeaderCRCValid(u.buffer, crc)
                THEN keep([u EXCEPT !.frame.HeaderCRC = crc, !.state = StateSync1])
                ELSE keep([u EXCEPT !.frame.HeaderCRC = crc,
                                    !.frame.Payload = <<>>,
                                    !.buffer = <<>>,
                                    !.state = StatePayload])
      [] u.state = StatePayload ->
            LET payload == Append(u.frame.Payload, b)
                buf     == Append(u.buffer, b)
            IN  IF PayloadComplete(payload, u.frame.PayloadLen)
                THEN keep([u EXCEPT !.frame.Payload = payload, !.buffer = buf,
                                    !.state = StatePayloadCRC1,
                                    !.frame.PayloadCRC = calculateCRC16(buf, 0)])
                ELSE keep([u EXCEPT !.frame.Payload = payload, !.buffer = buf])
      [] u.state = StatePayloadCRC1 ->
            keep([u EXCEPT !.frame.PayloadCRC = b, !.state = StatePayloadCRC2])
      [] u.state = StatePayloadCRC2 ->
            LET crc == BitOr(u.frame.PayloadCRC, (b * 256) % 65536)
                f   == [u.frame EXCEPT !.PayloadCRC = crc]
            IN  IF ~PayloadCRCValid(u.buffer, crc)
                THEN keep([u EXCEPT !.frame = f, !.state = StateSync1])
                ELSE [u     |-> [u EXCEPT !.frame = f, !.state = StateSync1],
                      calls |-> <<HandlerCall(f)>>]

(***************************************************************************)
(* Codec scenario: a line carrying garbage, then one frame written by      *)
(* WriteWithFrameID (possibly hit by one byte of line noise), read back    *)
(* one byte at a time by readLoop.                                         *)
(***************************************************************************)
MaxGarbage == 2

FrameIds == {0, 192}
GarbageBytes == {0, SyncByte1, SyncByte2}
\* what an earlier exchange left on the line: an empty frame and a zero byte
StaleFrame == WriteWithFrameID(1, <<>>).bytes \o <<0>>
Garbages == UNION {[1..n -> GarbageBytes] : n \in 0..MaxGarbage} \cup {StaleFrame}

EmbeddedFrame == WriteWithFrameID(1, <<42>>).bytes
MaxPayload == [i \in 1..MaxPayloadLength |-> (i % 256)]
OversizePayload == [i \in 1..(MaxPayloadLength + 1) |-> 0]
NoisyPayloads == {<<>>, <<1>>, EmbeddedFrame}
LongPayloads == {MaxPayload, OversizePayload}
Payloads == NoisyPayloads \cup {<<161, 1, 192, 1>>} \cup LongPayloads

\* the receiver as usock.New leaves it
NewUSOCK == [state |-> StateSync1, frame |-> ZeroFrame, buffer |-> <<>>]

state == usock.state
frame == usock.frame
buffer == usock.buffer

IdleCodec ==
    /\ usock = NewUSOCK
    /\ handlerCalls = <<>> /\ line = <<>> /\ phase = "off"
    /\ txId = 0 /\ txData = <<>> /\ garbage = <<>> /\ noisePos = 0
    /\ crcData = <<>> /\ crcAcc = 0

InitCodec ==
    /\ usock = NewUSOCK
    /\ handlerCalls = <<>>
    /\ txId \in FrameIds
    /\ txData \in Payloads
    /\ garbage \in (IF txData \in LongPayloads THEN {<<>>} ELSE Garbages)
    /\ noisePos = 0
    /\ line = garbage
    /\ phase = "tx"
    /\ crcData = <<>> /\ crcAcc = 0

\* the sender's WriteWithFrameID call puts the frame on the line
WriteFrame ==
    /\ phase = "tx"
    /\ LET r == WriteWithFrameID(txId, txData)
       IN  line' = IF r.err THEN line ELSE line \o r.bytes
    /\ phase' = "rx"
    /\ UNCHANGED <<usock, handlerCalls, txId, txData, garbage, noisePos>>
    /\ UNCHANGED <<crcVars, writerVars, serviceVars, taskVars>>

\* the line replaces the next byte of the frame by a different value
LineNoise ==
    /\ phase = "rx"
    /\ noisePos = 0
    /\ garbage = <<>>
    /\ txData \in NoisyPayloads
    /\ line # <<>>
    /\ \E v \in Byte \ {Head(line)} : line' = <<v>> \o Tail(line)
    /\ noisePos' = (9 + Len(txData)) - Len(line) + 1
    /\ UNCHANGED <<usock, handlerCalls, phase, txId, txData, garbage>>
    /\ UNCHANGED <<crcVars, writerVars, serviceVars, taskVars>>

\* one iteration of readLoop: read one byte and run processByte on it
ReadByte ==
    /\ phase = "rx"
    /\ line # <<>>
    /\ LET r == processByte(usock, Head(line))
       IN  /\ usock' = r.u
           /\ handlerCalls' = handlerCalls \o r.calls
    /\ line' = Tail(line)
    /\ UNCHANGED <<phase, txId, txData, garbage, noisePos>>
    /\ UNCHANGED <<crcVars, writerVars, serviceVars, taskVars>>

(***************************************************************************)
(* calculateCRC16(data, 0) run one iteration at a time.  The first two     *)
(* bytes of data range over every byte value, which takes the local crc    *)
(* through every 16-bit value; later bytes are 0x00 or 0xFF.               *)
(***************************************************************************)
MaxCrcBytes == 3

CrcBytes(i) == IF i <= 2 THEN Byte ELSE {0, 255}

\* one iteration of `for _, b := range data`
crcLoop(b) ==
    /\ Len(crcData) < MaxCrcBytes
    /\ crcData' = Append(crcData, b)
    /\ crcAcc' = crcStep(crcAcc, b)
    /\ UNCHANGED <<codecVars, writerVars, serviceVars, taskVars>>

(***************************************************************************)
(* Concurrent senders: NumWriters tasks (initialisation sequence,          *)
(* subscribers, command watcher, reset-ack) inside WriteWithFrameID.       *)
(***************************************************************************)
NumWriters == 3

Tasks == 1..NumWriters
NoTask == 0

\* u.mu.Lock() returns only while no task holds the mutex
MutexFree_NoLock(m) == TRUE
MutexFree(m) == m = NoTask

IdleWriters ==
    /\ mu = NoTask
    /\ wpc = <<>> /\ wargs = <<>> /\ wframe = <<>> /\ wn = <<>> /\ wret = <<>>
    /\ port = <<>>
    /\ portOpen = TRUE

InitWriters ==
    /\ mu = NoTask
    /\ wpc = [t \in Tasks |-> "lock"]
    /\ \E d \in [Tasks -> {<<7>>, OversizePayload}] :
           wargs = [t \in Tasks |-> [id |-> 32 * t, data |-> d[t]]]
    /\ wframe = [t \in Tasks |-> <<>>]
    /\ wn = [t \in Tasks |-> 0]
    /\ wret = [t \in Tasks |-> "none"]
    /\ port = <<>>
    /\ portOpen = TRUE

\* u.mu.Lock(), the length check and the construction of completeFrame
Lock(t) ==
    /\ wpc[t] = "lock"
    /\ MutexFree(mu)
    /\ mu' = t
    /\ LET r == WriteWithFrameID(wargs[t].id, wargs[t].data)
       IN  IF r.err
           THEN /\ wret' = [wret EXCEPT ![t] = "err"]
                /\ wpc' = [wpc EXCEPT ![t] = "unlock"]
                /\ wframe' = wframe
           ELSE /\ wret' = wret
                /\ wpc' = [wpc EXCEPT ![t] = "write"]
                /\ wframe' = [wframe EXCEPT ![t] = r.bytes]
    /\ UNCHANGED <<wargs, wn, port, portOpen>>
    /\ UNCHANGED <<codecVars, crcVars, serviceVars, taskVars>>

\* u.port.Write(completeFrame) moves the next byte of the frame to the port
PortWrite(t) ==
    /\ wpc[t] = "write"
    /\ portOpen
    /\ LET bytes == wframe[t]
       IN  /\ port' = Append(port, bytes[wn[t] + 1])
           /\ wn' = [wn EXCEPT ![t] = @ + 1]
           /\ IF wn[t] + 1 = Len(bytes)
              THEN /\ wret' = [wret EXCEPT ![t] = "nil"]
                   /\ wpc' = [wpc EXCEPT ![t] = "unlock"]
              ELSE UNCHANGED <<wret, wpc>>
    /\ UNCHANGED <<mu, wargs, wframe, portOpen>>
    /\ UNCHANGED <<codecVars, crcVars, serviceVars, taskVars>>

\* u.port.Write returns an error: "failed to write frame"
PortWriteError(t) ==
    /\ wpc[t] = "write"
    /\ ~portOpen
    /\ wret' = [wret EXCEPT ![t] = "err"]
    /\ wpc' = [wpc EXCEPT ![t] = "unlock"]
    /\ UNCHANGED <<mu, wargs, wframe, wn, port, portOpen>>
    /\ UNCHANGED <<codecVars, crcVars, serviceVars, taskVars>>

\* the deferred u.mu.Unlock()
Unlock(t) ==
    /\ wpc[t] = "unlock"
    /\ mu' = NoTask
    /\ wpc' = [wpc EXCEPT ![t] = "done"]
    /\ UNCHANGED <<wargs, wframe, wn, wret, port, portOpen>>
    /\ UNCHANGED <<codecVars, crcVars, serviceVars, taskVars>>

\* the serial device fails: every later port.Write returns an error
PortFail ==
    /\ portOpen
    /\ portOpen' = FALSE
    /\ UNCHANGED <<mu, wpc, wargs, wframe, wn, wret, port>>
    /\ UNCHANGED <<codecVars, crcVars, serviceVars, taskVars>>

(***************************************************************************)
(* pkg/ble/types.go: message types and subtypes.                           *)
(***************************************************************************)
TypeDataStream == 192
TypeBLEParam == 41088
TypeBattery == 224
TypeVehicleState == 32
TypeScooterInfo == 41024
TypePowerManagement == 2048
TypeBLEPairingPinDisplay == 41088 + 2
TypeBLEPairingPinRemove == 41088 + 3
TypeBLEStatus == 41088 + 4
TypeBLECommand == 43520
TypeBLEDebug == 40992
TypeBLEReset == 40992 + 1
TypeBLEVersion == 40960
TypeAuxBattery == 64
TypeBatteryInfo == 96
TypePowerMux == 256
TypeEvent == 0

TypeDataStreamEnable == 1
TypeDataStreamSync == 2
TypeBLEParamMACAddress == 1
TypeBLEParamData == 24
TypeBatterySlot1State == 226
TypeBatterySlot1Presence == 227
TypeBatterySlot1CycleCount == 230
TypeBatterySlot1Charge == 233
TypeBatterySlot2State == 238
TypeBatterySlot2Presence == 239
TypeBatterySlot2CycleCount == 242
TypeBatterySlot2Charge == 245
TypeVehicleStateState == 1
TypeVehicleStateSeatbox == 2
TypeVehicleStateHandlebar == 3
TypeSoftwareVersion == 1
TypeMileage == 2
TypePowerManagementState == 1
TypePowerManagementPowerRequest == 2
TypeBLEDebugResetAck == 3
TypeBLEVersionString == 1
TypeAuxBatteryVoltage == 1
TypeAuxBatteryCharge == 4
TypeAuxBatteryChargerStatus == 3

(***************************************************************************)
(* pkg/service/constants.go: store keys.                                   *)
(***************************************************************************)
KeyBatterySlot1 == "battery:0"
KeyBatterySlot2 == "battery:1"
KeyVehicle == "vehicle"
KeyPowerManager == "power-manager"
KeyMileage == "engine-ecu"
KeyFirmwareVersion == "system"
KeyBLEPairingPin == "ble"
KeyBLEStatus == "ble"
KeyCBBattery == "cb-battery"
KeyCBBatteryAlert == "cb-battery:alert"
KeyCBBatteryFault == "cb-battery:fault"

(***************************************************************************)
(* Decoded values.  A value of the envelope is a record with one field     *)
(* naming its dynamic type: [int |-> n], [str |-> s], [arr |-> <<...>>],   *)
(* or [other |-> TRUE] for a type no conversion accepts.                   *)
(***************************************************************************)
Uint16(n) == n % 65536

\* helpers.go convertToInt: every integer type converts
convertToInt(value) ==
    IF "int" \in DOMAIN value THEN [v |-> value.int, ok |-> TRUE]
    ELSE [v |-> 0, ok |-> FALSE]

\* helpers.go convertToString: string and []byte convert
convertToString(value) ==
    IF "str" \in DOMAIN value THEN [v |-> value.str, ok |-> TRUE]
    ELSE [v |-> "", ok |-> FALSE]

(***************************************************************************)
(* pkg/redis/client.go: the operations of the store adapter, recorded as   *)
(* the commands they issue.                                                *)
(***************************************************************************)
\* fmt.Sprintf("%s:%s", field, value)
PublishPayload_FieldOnly(field, value) == field
PublishPayload(field, value) == field \o ":" \o value

WriteString(key, field, value) ==
    [op |-> "WriteString", key |-> key, field |-> field, value |-> value]

WriteAndPublishString(key, field, value) ==
    [op |-> "WriteAndPublishString", key |-> key, field |-> field, value |-> value,
     payload |-> PublishPayload(field, value)]

WriteInt(key, field, value) ==
    [op |-> "WriteInt", key |-> key, field |-> field, value |-> ToString(value)]

WriteAndPublishInt(key, field, value) ==
    [op |-> "WriteAndPublishInt", key |-> key, field |-> field, value |-> ToString(value),
     payload |-> PublishPayload(field, ToString(value))]

HDel(key, field) == [op |-> "HDel", key |-> key, field |-> field]

LPush(key, value) == [op |-> "LPush", key |-> key, value |-> value]

\* the operations that issue PUBLISH
IsPublish(o) == o.op \in {"WriteAndPublishString", "WriteAndPublishInt"}

\* helpers.go writeUARTMessage / writeUARTMessageString
writeUARTMessage(messageType, subType, value) ==
    [op |-> "send",
     frameID |-> messageType % 256,
     msgType |-> messageType,
     key |-> Uint16(messageType + subType),
     value |-> [int |-> Uint16(value)]]

writeUARTMessageString(messageType, subType, value) ==
    [op |-> "send",
     frameID |-> messageType % 256,
     msgType |-> messageType,
     key |-> Uint16(messageType + subType),
     value |-> [str |-> value]]

(***************************************************************************)
(* The inbound handlers of pkg/service.  Each returns the sequence of      *)
(* store operations and outbound sends it performs, in program order.      *)
(***************************************************************************)
\* bit k of a two's-complement integer: v & (1 << k) != 0
HasBit(v, k) == (v \div (2 ^ k)) % 2 = 1

HasAnyBit(v, ks) == \E k \in ks : HasBit(v, k)

handleBatteryMessage(subType, value, slot) ==
    LET redisKey == IF slot = 2 THEN KeyBatterySlot2 ELSE KeyBatterySlot1
        n == convertToInt(value)
    IN  IF subType \in {TypeBatterySlot1State, TypeBatterySlot2State}
        THEN IF n.ok THEN <<WriteInt(redisKey, "state", n.v)>> ELSE <<>>
        ELSE IF subType \in {TypeBatterySlot1Presence, TypeBatterySlot2Presence}
        THEN IF n.ok
             THEN <<WriteString(redisKey, "present", IF n.v # 0 THEN "true" ELSE "false")>>
             ELSE <<>>
        ELSE IF subType \in {TypeBatterySlot1CycleCount, TypeBatterySlot2CycleCount}
        THEN IF n.ok THEN <<WriteInt(redisKey, "cycle-count", n.v)>> ELSE <<>>
        ELSE IF subType \in {TypeBatterySlot1Charge, TypeBatterySlot2Charge}
        THEN IF n.ok THEN <<WriteInt(redisKey, "charge", n.v)>> ELSE <<>>
        ELSE <<>>

batterySlot_Relative(absSubTypeKey) ==
    IF absSubTypeKey >= TypeBatterySlot1State /\ absSubTypeKey <= TypeBatterySlot1Charge
    THEN 1
    ELSE IF absSubTypeKey >= TypeBatterySlot2State /\ absSubTypeKey <= TypeBatterySlot2Charge
    THEN 2
    ELSE 0
\* the slot the router derives from the absolute subtype key
batterySlot(absSubTypeKey) ==
    IF /\ absSubTypeKey >= Uint16(TypeBattery + TypeBatterySlot1State)
       /\ absSubTypeKey <= Uint16(TypeBattery + TypeBatterySlot1Charge)
    THEN 1
    ELSE IF /\ absSubTypeKey >= Uint16(TypeBattery + TypeBatterySlot2State)
            /\ absSubTypeKey <= Uint16(TypeBattery + TypeBatterySlot2Charge)
    THEN 2
    ELSE 0

\* logs only
handleVehicleStateMessage(subType, value) == <<>>

handleScooterInfoMessage_Publishing(msgType, absSubTypeKey, value) ==
    IF absSubTypeKey = Uint16(TypeScooterInfo + TypeMileage)
    THEN IF convertToInt(value).ok
         THEN <<WriteAndPublishInt(KeyMileage, "odometer", convertToInt(value).v)>>
         ELSE <<>>
    ELSE IF absSubTypeKey = Uint16(TypeScooterInfo + TypeSoftwareVersion)
    THEN IF convertToString(value).ok
         THEN <<WriteString(KeyFirmwareVersion, "mdb-version", convertToString(value).v)>>
         ELSE <<>>
    ELSE <<>>

handleScooterInfoMessage(msgType, absSubTypeKey, value) ==
    IF absSubTypeKey = Uint16(TypeScooterInfo + TypeMileage)
    THEN IF convertToInt(value).ok
         THEN <<WriteInt(KeyMileage, "odometer", convertToInt(value).v)>>
         ELSE <<>>
    ELSE IF absSubTypeKey = Uint16(TypeScooterInfo + TypeSoftwareVersion)
    THEN IF convertToString(value).ok
         THEN <<WriteString(KeyFirmwareVersion, "mdb-version", convertToString(value).v)>>
         ELSE <<>>
    ELSE <<>>

handleBLEVersionMessage(msgType, absSubTypeKey, value) ==
    IF absSubTypeKey = Uint16(TypeBLEVersion + TypeBLEVersionString)
    THEN IF convertToString(value).ok
         THEN <<WriteString(KeyBLEStatus, "nrf-fw-version", convertToString(value).v)>>
         ELSE <<>>
    ELSE <<>>

handleBLEDebugMessage_AckFirst(msgType, absSubTypeKey, value) ==
    IF absSubTypeKey = Uint16(TypeBLEDebug + TypeBLEDebugResetAck)
    THEN <<>>
    ELSE IF absSubTypeKey = TypeBLEReset
    THEN IF "arr" \in DOMAIN value /\ Len(value.arr) = 2
         THEN LET reason == convertToInt(value.arr[1])
                  count == convertToInt(value.arr[2])
              IN  IF reason.ok /\ count.ok
                  THEN << writeUARTMessage(TypeBLEDebug, TypeBLEDebugResetAck, 0),
                          WriteInt(KeyPowerManager, "nrf-reset-count", count.v),
                          WriteAndPublishInt(KeyPowerManager, "nrf-reset-reason", reason.v) >>
                  ELSE <<>>
         ELSE <<>>
    ELSE <<>>

handleBLEDebugMessage(msgType, absSubTypeKey, value) ==
    IF absSubTypeKey = Uint16(TypeBLEDebug + TypeBLEDebugResetAck)
    THEN <<>>
    ELSE IF absSubTypeKey = TypeBLEReset
    THEN IF "arr" \in DOMAIN value /\ Len(value.arr) = 2
         THEN LET reason == convertToInt(value.arr[1])
                  count == convertToInt(value.arr[2])
              IN  IF reason.ok /\ count.ok
                  THEN << WriteInt(KeyPowerManager, "nrf-reset-count", count.v),
                          WriteAndPublishInt(KeyPowerManager, "nrf-reset-reason", reason.v),
                          writeUARTMessage(TypeBLEDebug, TypeBLEDebugResetAck, 0) >>
                  ELSE <<>>
         ELSE <<>>
    ELSE <<>>

handleDataStreamMessage(subType, value) ==
    IF subType = TypeDataStreamEnable
    THEN IF convertToInt(value).ok
         THEN <<WriteInt("aux-battery", "data-stream-enable", convertToInt(value).v)>>
         ELSE <<>>
    ELSE <<>>

handleAuxBatteryMessage(subType, value) ==
    IF subType = TypeAuxBatteryVoltage
    THEN IF convertToInt(value).ok
         THEN <<WriteInt("aux-battery", "voltage", convertToInt(value).v)>>
         ELSE <<>>
    ELSE IF subType = TypeAuxBatteryCharge
    THEN IF convertToInt(value).ok
         THEN <<WriteInt("aux-battery", "charge", convertToInt(value).v)>>
         ELSE <<>>
    ELSE IF subType = TypeAuxBatteryChargerStatus
    THEN IF convertToString(value).ok
         THEN <<WriteString("aux-battery", "charge-status", convertToString(value).v)>>
         ELSE <<>>
    ELSE <<>>

\* logs only
handlePowerManagementMessage(subType, value) == <<>>

\* logs only
handleBLECommandMessage(msgType, absSubTypeKey, value) == <<>>

handleBLEParamMessage_DeleteLast(msgType, absSubTypeKey, value) ==
    IF absSubTypeKey = Uint16(TypeBLEParam + TypeBLEParamMACAddress)
    THEN IF convertToString(value).ok
         THEN <<WriteString(KeyBLEStatus, "mac-address", convertToString(value).v)>>
         ELSE <<>>
    ELSE IF absSubTypeKey = TypeBLEPairingPinDisplay
    THEN IF convertToString(value).ok
         THEN <<WriteAndPublishString(KeyBLEPairingPin, "pin-code", convertToString(value).v)>>
         ELSE <<>>
    ELSE IF absSubTypeKey = TypeBLEPairingPinRemove
    THEN << WriteAndPublishString(KeyBLEPairingPin, "pin-code", ""),
            HDel(KeyBLEPairingPin, "pin-code") >>
    ELSE IF absSubTypeKey = Uint16(TypeBLEParam + TypeBLEParamData)
    THEN <<>>
    ELSE IF absSubTypeKey = TypeBLEStatus
    THEN IF msgType = TypeBLEParam /\ convertToString(value).ok
         THEN <<WriteString(KeyBLEStatus, "connection-status", convertToString(value).v)>>
         ELSE <<>>
    ELSE <<>>
handleBLEParamMessage(msgType, absSubTypeKey, value) ==
    IF absSubTypeKey = Uint16(TypeBLEParam + TypeBLEParamMACAddress)
    THEN IF convertToString(value).ok
         THEN <<WriteString(KeyBLEStatus, "mac-address", convertToString(value).v)>>
         ELSE <<>>
    ELSE IF absSubTypeKey = TypeBLEPairingPinDisplay
    THEN IF convertToString(value).ok
         THEN <<WriteAndPublishString(KeyBLEPairingPin, "pin-code", convertToString(value).v)>>
         ELSE <<>>
    ELSE IF absSubTypeKey = TypeBLEPairingPinRemove
    THEN << HDel(KeyBLEPairingPin, "pin-code"),
            WriteAndPublishString(KeyBLEPairingPin, "pin-code", "") >>
    ELSE IF absSubTypeKey = Uint16(TypeBLEParam + TypeBLEParamData)
    THEN <<>>
    ELSE IF absSubTypeKey = TypeBLEStatus
    THEN IF msgType = TypeBLEParam /\ convertToString(value).ok
         THEN <<WriteString(KeyBLEStatus, "connection-status", convertToString(value).v)>>
         ELSE <<>>
    ELSE <<>>

writeFaultToRedis_NeverClear(key, source, code, message, faultType) ==
    <<WriteString(key, faultType, message)>>
writeFaultToRedis(key, source, code, message, faultType) ==
    IF code = 255 /\ message = ""
    THEN <<HDel(key, faultType)>>
    ELSE <<WriteString(key, faultType, message)>>

handlePowerMuxMessage_OneIsCb(subType, value) ==
    IF convertToInt(value).ok
    THEN <<WriteAndPublishString("power-mux", "selected-input",
                                 IF convertToInt(value).v = 1 THEN "cb" ELSE "aux")>>
    ELSE <<>>
handlePowerMuxMessage(subType, value) ==
    IF convertToInt(value).ok
    THEN <<WriteAndPublishString("power-mux", "selected-input",
                                 IF convertToInt(value).v = 0 THEN "aux" ELSE "cb")>>
    ELSE <<>>

handleEventMessage_RawPush(msgType, absSubTypeKey, value) ==
    IF "str" \notin DOMAIN value THEN <<>>
    ELSE IF value.str = "scooter:state unlock" THEN <<LPush("scooter:state", "unlock")>>
    ELSE IF value.str = "scooter:state lock" THEN <<LPush("scooter:state", "lock")>>
    ELSE IF value.str = "scooter:seatbox open" THEN <<LPush("scooter:seatbox", "open")>>
    ELSE IF value.str \in {"scooter:blinker right", "scooter:blinker left",
                           "scooter:blinker both", "scooter:blinker off"}
    THEN <<LPush("scooter:blinker", value.str)>>
    ELSE <<>>
handleEventMessage_PushUnknown(msgType, absSubTypeKey, value) ==
    IF "str" \notin DOMAIN value THEN <<>>
    ELSE IF value.str = "scooter:state unlock" THEN <<LPush("scooter:state", "unlock")>>
    ELSE IF value.str = "scooter:state lock" THEN <<LPush("scooter:state", "lock")>>
    ELSE IF value.str = "scooter:seatbox open" THEN <<LPush("scooter:seatbox", "open")>>
    ELSE IF value.str = "scooter:blinker right" THEN <<LPush("scooter:blinker", "right")>>
    ELSE IF value.str = "scooter:blinker left" THEN <<LPush("scooter:blinker", "left")>>
    ELSE IF value.str = "scooter:blinker both" THEN <<LPush("scooter:blinker", "both")>>
    ELSE IF value.str = "scooter:blinker off" THEN <<LPush("scooter:blinker", "off")>>
    ELSE <<LPush("scooter:event", value.str)>>
handleEventMessage(msgType, absSubTypeKey, value) ==
    IF "str" \notin DOMAIN value THEN <<>>
    ELSE IF value.str = "scooter:state unlock" THEN <<LPush("scooter:state", "unlock")>>
    ELSE IF value.str = "scooter:state lock" THEN <<LPush("scooter:state", "lock")>>
    ELSE IF value.str = "scooter:seatbox open" THEN <<LPush("scooter:seatbox", "open")>>
    ELSE IF value.str = "scooter:blinker right" THEN <<LPush("scooter:blinker", "right")>>
    ELSE IF value.str = "scooter:blinker left" THEN <<LPush("scooter:blinker", "left")>>
    ELSE IF value.str = "scooter:blinker both" THEN <<LPush("scooter:blinker", "both")>>
    ELSE IF value.str = "scooter:blinker off" THEN <<LPush("scooter:blinker", "off")>>
    ELSE <<>>

TypeBatteryInfoStatus == 8
TypeBatteryInfoProtectionStatus == 11
TypeBatteryInfoUniqueID == 13
TypeBatteryInfoSerialNumber == 14
TypeBatteryInfoBattStatus == 15
TypeBatteryInfoPartNo == 16
TypeBatteryInfoPresent == 17
TypeBatteryInfoChargeStatus == 18

\* the integer-valued battery-info subtypes and their fields
batteryInfoIntField ==
    (1 :> "charge") @@ (2 :> "current") @@ (3 :> "remaining-capacity") @@
    (4 :> "full-capacity") @@ (5 :> "cell-voltage") @@ (6 :> "temperature") @@
    (7 :> "cycle-count") @@ (9 :> "time-to-empty") @@ (10 :> "time-to-full") @@
    (12 :> "state-of-health")

statusAlerts_BitOrder ==
    << <<2, 0, "Minimum Current Alert Threshold Exceeded">>,
       <<6, 1, "Maximum Current Alert Threshold Exceeded">>,
       <<8, 2, "Minimum Voltage Alert Threshold Exceeded">>,
       <<9, 4, "Minimum Temperature Alert Threshold Exceeded">>,
       <<10, 6, "Minimum SOC Alert Threshold Exceeded">>,
       <<12, 3, "Maximum Voltage Alert Threshold Exceeded">>,
       <<13, 5, "Maximum Temperature Alert Threshold Exceeded">>,
       <<14, 7, "Maximum SOC Alert Threshold Exceeded">> >>
\* the MAX1730X status alerts, in the order the handler tests them: bit, code, message
statusAlerts ==
    << <<2, 0, "Minimum Current Alert Threshold Exceeded">>,
       <<6, 1, "Maximum Current Alert Threshold Exceeded">>,
       <<8, 2, "Minimum Voltage Alert Threshold Exceeded">>,
       <<12, 3, "Maximum Voltage Alert Threshold Exceeded">>,
       <<9, 4, "Minimum Temperature Alert Threshold Exceeded">>,
       <<13, 5, "Maximum Temperature Alert Threshold Exceeded">>,
       <<10, 6, "Minimum SOC Alert Threshold Exceeded">>,
       <<14, 7, "Maximum SOC Alert Threshold Exceeded">> >>

battStatusFaults_Reversed ==
    << <<10, 4, "FET Failure open">>,
       <<11, 3, "DischargeFET Failure-Short Detected">>,
       <<12, 2, "ChargeFET Failure-Short Detected">> >>

\* the MAX1730X battery status faults, in the order the handler tests them
battStatusFaults ==
    << <<12, 2, "ChargeFET Failure-Short Detected">>,
       <<11, 3, "DischargeFET Failure-Short Detected">>,
       <<10, 4, "FET Failure open">> >>

\* the first entry of an if / else-if chain over bits whose bit is set in v, 0 if none
RECURSIVE firstSet(_, _, _)
firstSet(chain, v, i) ==
    IF i > Len(chain) THEN 0
    ELSE IF HasBit(v, chain[i][1]) THEN i
    ELSE firstSet(chain, v, i + 1)

handleBatteryInfoMessage(subType, value) ==
    LET i == convertToInt(value)
        s == convertToString(value)
        isInt == i.ok
        isString == ~i.ok /\ s.ok
        processed == i.ok \/ s.ok
        valueInt == i.v
    IN  IF subType = TypeBatteryInfoStatus
        THEN IF ~isInt THEN <<>>
             ELSE LET a == firstSet(statusAlerts, valueInt, 1)
                  IN  IF a # 0
                      THEN writeFaultToRedis(KeyCBBatteryAlert, KeyCBBattery,
                                             statusAlerts[a][2], statusAlerts[a][3], "alert")
                      ELSE IF ~HasAnyBit(valueInt, {2, 6, 8, 12, 9, 13, 10, 14})
                      THEN writeFaultToRedis(KeyCBBatteryAlert, KeyCBBattery, 255, "", "alert")
                      ELSE <<>>
        ELSE IF subType = TypeBatteryInfoProtectionStatus
        THEN IF ~isInt THEN <<>>
             ELSE IF HasAnyBit(valueInt, {2, 3, 4, 5})
             THEN writeFaultToRedis(KeyCBBatteryFault, KeyCBBattery, 0, "Discharging fault", "fault")
             ELSE IF HasAnyBit(valueInt, {12, 11, 10, 9, 14, 13, 5})
             THEN writeFaultToRedis(KeyCBBatteryFault, KeyCBBattery, 1, "Charging fault", "fault")
             ELSE IF ~HasAnyBit(valueInt, {2, 3, 4, 5, 12, 11, 10, 9, 14, 13})
             THEN writeFaultToRedis(KeyCBBatteryFault, KeyCBBattery, 255, "", "fault")
             ELSE <<>>
        ELSE IF subType = TypeBatteryInfoBattStatus
        THEN IF ~isInt THEN <<>>
             ELSE LET f == firstSet(battStatusFaults, valueInt, 1)
                  IN  IF f # 0
                      THEN writeFaultToRedis(KeyCBBatteryFault, KeyCBBattery,
                                             battStatusFaults[f][2], battStatusFaults[f][3], "fault")
                      ELSE IF ~HasAnyBit(valueInt, {12, 11, 10})
                      THEN writeFaultToRedis(KeyCBBatteryFault, KeyCBBattery, 255, "", "fault")
                      ELSE <<>>
        ELSE IF ~processed THEN <<>>
        ELSE IF subType \in DOMAIN batteryInfoIntField
        THEN IF isInt THEN <<WriteInt(KeyCBBattery, batteryInfoIntField[subType], valueInt)>>
             ELSE <<>>
        ELSE IF subType = TypeBatteryInfoUniqueID
        THEN IF isString THEN <<WriteString(KeyCBBattery, "unique-id", s.v)>> ELSE <<>>
        ELSE IF subType = TypeBatteryInfoSerialNumber
        THEN IF isString THEN <<WriteString(KeyCBBattery, "serial-number", s.v)>> ELSE <<>>
        ELSE IF subType = TypeBatteryInfoPartNo
        THEN IF isInt
             THEN <<WriteString(KeyCBBattery, "part-number",
                      IF valueInt = 5 THEN "MAX17301"
                      ELSE IF valueInt = 6 THEN "MAX17302"
                      ELSE IF valueInt = 7 THEN "MAX17303"
                      ELSE "MAX1730X (" \o ToString(valueInt) \o ")")>>
             ELSE <<>>
        ELSE IF subType = TypeBatteryInfoPresent
        THEN IF isInt
             THEN <<WriteString(KeyCBBattery, "present",
                                IF valueInt # 0 THEN "true" ELSE "false")>>
             ELSE <<>>
        ELSE IF subType = TypeBatteryInfoChargeStatus
        THEN IF isInt
             THEN <<WriteString(KeyCBBattery, "charge-status",
                      IF valueInt = 0 THEN "not-charging"
                      ELSE IF valueInt = 1 THEN "charging"
                      ELSE "unknown")>>
             ELSE <<>>
        ELSE <<>>

(***************************************************************************)
(* Service.HandleUSockMessage.  An inbound payload is modelled by what     *)
(* cbor.Unmarshal makes of it: decodes is FALSE when decoding fails, else  *)
(* top lists the top-level entries [key, params], and params is either     *)
(* [map |-> entries] with entries [key, value], or a value that is no map. *)
(***************************************************************************)
\* the inner entries kept in paramMap: uint64 keys that fit uint16
paramMap(params) ==
    SelectSeq(params.map,
              LAMBDA e : "int" \in DOMAIN e.key /\ e.key.int >= 0 /\ e.key.int <= 65535)

\* the body of the loop over paramMap: route by the outer message type
routeEntry(msgType, absSubTypeKey, value) ==
    LET relativeSubType == IF absSubTypeKey >= msgType THEN absSubTypeKey - msgType ELSE 0
    IN  IF msgType = TypeBattery
        THEN IF batterySlot(absSubTypeKey) # 0
             THEN handleBatteryMessage(relativeSubType, value, batterySlot(absSubTypeKey))
             ELSE <<>>
        ELSE IF msgType = TypeVehicleState
        THEN handleVehicleStateMessage(relativeSubType, value)
        ELSE IF msgType = TypeScooterInfo
        THEN handleScooterInfoMessage(msgType, absSubTypeKey, value)
        ELSE IF msgType \in {TypeBLEParam, TypeBLEPairingPinDisplay,
                             TypeBLEPairingPinRemove, TypeBLEStatus}
        THEN handleBLEParamMessage(msgType, absSubTypeKey, value)
        ELSE IF msgType = TypeBLEVersion
        THEN handleBLEVersionMessage(msgType, absSubTypeKey, value)
        ELSE IF msgType \in {TypeBLEDebug, TypeBLEReset}
        THEN handleBLEDebugMessage(msgType, absSubTypeKey, value)
        ELSE IF msgType = TypeDataStream
        THEN handleDataStreamMessage(relativeSubType, value)
        ELSE IF msgType = TypePowerManagement
        THEN handlePowerManagementMessage(relativeSubType, value)
        ELSE IF msgType = TypeAuxBattery
        THEN handleAuxBatteryMessage(relativeSubType, value)
        ELSE IF msgType = TypeBLECommand
        THEN handleBLECommandMessage(msgType, absSubTypeKey, value)
        ELSE IF msgType = TypeBatteryInfo
        THEN handleBatteryInfoMessage(relativeSubType, value)
        ELSE IF msgType = TypePowerMux
        THEN handlePowerMuxMessage(relativeSubType, value)
        ELSE IF msgType = TypeEvent
        THEN handleEventMessage(msgType, absSubTypeKey, value)
        ELSE <<>>

RECURSIVE routeAll_StopAtFailure(_, _, _, _)
routeAll_StopAtFailure(msgType, entries, order, i) ==
    IF i > Len(order) THEN <<>>
    ELSE LET r == routeEntry(msgType, entries[order[i]].key.int, entries[order[i]].value)
         IN  IF r = <<>> THEN <<>>
             ELSE r \o routeAll_StopAtFailure(msgType, entries, order, i + 1)
RECURSIVE routeAll(_, _, _, _)
routeAll(msgType, entries, order, i) ==
    IF i > Len(order) THEN <<>>
    ELSE routeEntry(msgType, entries[order[i]].key.int, entries[order[i]].value)
         \o routeAll(msgType, entries, order, i + 1)

\* the orders in which a Go map of n entries can be ranged over
RangeOrders(n) == {o \in [1..n -> 1..n] : \A i, j \in 1..n : o[i] = o[j] => i = j}

\* the number of entries the handler ranges over for a payload
rangeLen(payload) ==
    IF payload.decodes /\ Len(payload.top) = 1 /\ "map" \in DOMAIN payload.top[1].params
    THEN Len(paramMap(payload.top[1].params))
    ELSE 0

HandleUSockMessage_DirectValue(frameID, payload, order) ==
    IF ~payload.decodes THEN <<>>
    ELSE IF Len(payload.top) # 1 THEN <<>>
    ELSE IF "map" \notin DOMAIN payload.top[1].params
    THEN routeEntry(payload.top[1].key, payload.top[1].key, payload.top[1].params)
    ELSE routeAll(payload.top[1].key, paramMap(payload.top[1].params), order, 1)
HandleUSockMessage(frameID, payload, order) ==
    IF ~payload.decodes THEN <<>>
    ELSE IF Len(payload.top) # 1 THEN <<>>
    ELSE IF "map" \notin DOMAIN payload.top[1].params THEN <<>>
    ELSE routeAll(payload.top[1].key, paramMap(payload.top[1].params), order, 1)

(***************************************************************************)
(* Store reads (pkg/redis/client.go) and the outbound update functions     *)
(* (pkg/service/redis_handlers.go).  st is the store's hashes.             *)
(***************************************************************************)
GetString(st, key, field) ==
    IF <<key, field>> \in DOMAIN st
    THEN [v |-> st[<<key, field>>], err |-> FALSE]
    ELSE [v |-> "", err |-> TRUE]

\* the integers whose decimal form strconv.Atoi is asked to parse in this model
Numerals == {0, 1, 2, 3, 5, 7, 42, 65537, -1}

\* strconv.Atoi
Atoi(s) ==
    IF \E n \in Numerals : ToString(n) = s
    THEN [v |-> CHOOSE n \in Numerals : ToString(n) = s, err |-> FALSE]
    ELSE [v |-> 0, err |-> TRUE]

GetInt(st, key, field) ==
    IF GetString(st, key, field).err THEN [v |-> 0, err |-> TRUE]
    ELSE Atoi(GetString(st, key, field).v)

stateInts_Swapped ==
    ("standby" :> 0) @@ ("parked" :> 1) @@ ("ready-to-drive" :> 2) @@
    ("shutting-down" :> 4) @@ ("updating" :> 3) @@ ("off" :> 5) @@
    ("running" :> 1) @@ ("closed" :> 0) @@ ("open" :> 1)
stateInts ==
    ("standby" :> 0) @@ ("parked" :> 1) @@ ("ready-to-drive" :> 2) @@
    ("shutting-down" :> 3) @@ ("updating" :> 4) @@ ("off" :> 5) @@
    ("running" :> 1) @@ ("closed" :> 0) @@ ("open" :> 1)

GetStateInt(st, key, field) ==
    LET val == GetString(st, key, field)
    IN  IF val.err THEN [v |-> 0, err |-> TRUE]
        ELSE IF val.v \in DOMAIN stateInts THEN [v |-> stateInts[val.v], err |-> FALSE]
        ELSE Atoi(val.v)

\* the value an update sends when its read fails: the default
OrDefault(r, d) == IF r.err THEN d ELSE r.v

\* the outcomes of the successive sock.WriteWithFrameID calls of one handling:
\* ok[i] is TRUE when the i-th call returns nil
PortOutcomes == {<<a, b>> : a \in BOOLEAN, b \in BOOLEAN}
PortHealthy == <<TRUE, TRUE>>

\* if err := writeUARTMessage(...); err != nil { return fmt.Errorf(...) }; return nil
\* sends lists the frames handed to WriteWithFrameID, err is the returned error
sendOnly(m, ok) == [sends |-> <<m>>, err |-> ~ok[1]]

UpdateVehicleState(st, ok) ==
    sendOnly(writeUARTMessage(TypeVehicleState, TypeVehicleStateState,
                              OrDefault(GetStateInt(st, KeyVehicle, "state"), 0)), ok)

UpdateSeatboxLock(st, ok) ==
    sendOnly(writeUARTMessage(TypeVehicleState, TypeVehicleStateSeatbox,
                              OrDefault(GetStateInt(st, KeyVehicle, "seatbox:lock"), 0)), ok)

UpdateHandlebarLock(st, ok) ==
    LET s == GetString(st, KeyVehicle, "handlebar:lock-sensor")
    IN  sendOnly(writeUARTMessage(TypeVehicleState, TypeVehicleStateHandlebar,
                                  IF ~s.err /\ s.v = "unlocked" THEN 1 ELSE 0), ok)

UpdateMileage_Propagating(st, ok) ==
    IF GetInt(st, KeyMileage, "odometer").err
    THEN [sends |-> <<>>, err |-> TRUE]
    ELSE sendOnly(writeUARTMessage(TypeScooterInfo, TypeMileage,
                                   GetInt(st, KeyMileage, "odometer").v), ok)
UpdateMileage(st, ok) ==
    sendOnly(writeUARTMessage(TypeScooterInfo, TypeMileage,
                              OrDefault(GetInt(st, KeyMileage, "odometer"), 0)), ok)

UpdateFirmwareVersion(st, ok) ==
    sendOnly(writeUARTMessageString(TypeScooterInfo, TypeSoftwareVersion,
                 OrDefault(GetString(st, KeyFirmwareVersion, "mdb-version"), "")), ok)

slotKey(slot) == IF slot = 2 THEN KeyBatterySlot2 ELSE KeyBatterySlot1

batteryStateToInt(s) ==
    IF s = "asleep" THEN 1 ELSE IF s = "idle" THEN 2 ELSE IF s = "active" THEN 3 ELSE 0

UpdateBatteryActiveStatus(st, slot, ok) ==
    sendOnly(writeUARTMessage(TypeBattery,
                 IF slot = 2 THEN TypeBatterySlot2State ELSE TypeBatterySlot1State,
                 batteryStateToInt(OrDefault(GetString(st, slotKey(slot), "state"),
                                             "unknown"))), ok)

UpdateBatteryPresentStatus(st, slot, ok) ==
    LET n == GetInt(st, slotKey(slot), "present")
        s == GetString(st, slotKey(slot), "present")
        present == IF ~n.err THEN n.v
                   ELSE IF ~s.err /\ s.v \in {"true", "1"} THEN 1 ELSE 0
    IN  sendOnly(writeUARTMessage(TypeBattery,
                                  IF slot = 2 THEN TypeBatterySlot2Presence
                                  ELSE TypeBatterySlot1Presence,
                                  present), ok)

UpdateBatteryCycleCount(st, slot, ok) ==
    sendOnly(writeUARTMessage(TypeBattery,
                              IF slot = 2 THEN TypeBatterySlot2CycleCount
                              ELSE TypeBatterySlot1CycleCount,
                              OrDefault(GetInt(st, slotKey(slot), "cycle-count"), 0)), ok)

UpdateBatteryRemainingCharge(st, slot, ok) ==
    sendOnly(writeUARTMessage(TypeBattery,
                 IF slot = 2 THEN TypeBatterySlot2Charge ELSE TypeBatterySlot1Charge,
                 OrDefault(GetInt(st, slotKey(slot), "charge"), 0)), ok)

powerStateInts ==
    ("running" :> 1) @@ ("suspending" :> 0) @@ ("hibernating" :> 2) @@
    ("hibernating-l2" :> 2) @@ ("suspending-imminent" :> 3) @@
    ("hibernating-imminent" :> 4) @@ ("reboot" :> 5) @@ ("reboot-imminent" :> 1)

\* the second write's error is logged, not returned
UpdatePowerManagementState_AlwaysLevel(st, ok) ==
    LET stateStr == OrDefault(GetString(st, KeyPowerManager, "state"), "running")
        stateInt == IF stateStr \in DOMAIN powerStateInts THEN powerStateInts[stateStr] ELSE 1
    IN  [sends |-> <<writeUARTMessage(TypePowerManagement, TypePowerManagementState, stateInt)>>
                   \o (IF stateStr \in {"hibernating", "hibernating-l2"}
                       THEN <<writeUARTMessage(TypePowerManagement,
                                               TypePowerManagementPowerRequest, 1)>>
                       ELSE <<>>),
         err |-> ~ok[1]]
UpdatePowerManagementState(st, ok) ==
    LET stateStr == OrDefault(GetString(st, KeyPowerManager, "state"), "running")
        stateInt == IF stateStr \in DOMAIN powerStateInts THEN powerStateInts[stateStr] ELSE 1
        first == writeUARTMessage(TypePowerManagement, TypePowerManagementState, stateInt)
        level == writeUARTMessage(TypePowerManagement, TypePowerManagementPowerRequest, 1)
    IN  IF ~ok[1] THEN [sends |-> <<first>>, err |-> TRUE]
        ELSE IF stateStr = "hibernating-l2" THEN [sends |-> <<first, level>>, err |-> FALSE]
        ELSE [sends |-> <<first>>, err |-> FALSE]

(***************************************************************************)
(* Service.SubscribeToRedisChannels: one task per channel; the body of     *)
(* its loop for one message: the frames it hands to WriteWithFrameID and   *)
(* the error of each update call, which it logs.                           *)
(***************************************************************************)
Channels ==
    {KeyVehicle, KeyBatterySlot1, KeyBatterySlot2, KeyPowerManager,
     KeyMileage, KeyFirmwareVersion, KeyBLEPairingPin}

\* one update call, and no call
oneCall(r) == [sends |-> r.sends, errs |-> <<r.err>>]
noCall == [sends |-> <<>>, errs |-> <<>>]

batteryFieldUpdate_StopOnError(st, slot, field, ok) ==
    IF field = "state" THEN oneCall(UpdateBatteryActiveStatus(st, slot, ok))
    ELSE IF field = "present"
    THEN LET p == UpdateBatteryPresentStatus(st, slot, ok)
             c == UpdateBatteryCycleCount(st, slot, Tail(ok))
         IN  IF p.err THEN oneCall(p)
             ELSE [sends |-> p.sends \o c.sends, errs |-> <<p.err, c.err>>]
    ELSE IF field = "charge" THEN oneCall(UpdateBatteryRemainingCharge(st, slot, ok))
    ELSE IF field = "cycle-count" THEN oneCall(UpdateBatteryCycleCount(st, slot, ok))
    ELSE noCall
batteryFieldUpdate(st, slot, field, ok) ==
    IF field = "state" THEN oneCall(UpdateBatteryActiveStatus(st, slot, ok))
    ELSE IF field = "present"
    THEN LET p == UpdateBatteryPresentStatus(st, slot, ok)
             c == UpdateBatteryCycleCount(st, slot, Tail(ok))
         IN  [sends |-> p.sends \o c.sends, errs |-> <<p.err, c.err>>]
    ELSE IF field = "charge" THEN oneCall(UpdateBatteryRemainingCharge(st, slot, ok))
    ELSE IF field = "cycle-count" THEN oneCall(UpdateBatteryCycleCount(st, slot, ok))
    ELSE noCall

\* field is msg.Payload, the whole payload of the notification
onMessage(st, chName, field, ok) ==
    IF chName = KeyVehicle
    THEN IF field = "state" THEN oneCall(UpdateVehicleState(st, ok))
         ELSE IF field = "seatbox:lock" THEN oneCall(UpdateSeatboxLock(st, ok))
         ELSE IF field = "handlebar:lock-sensor" THEN oneCall(UpdateHandlebarLock(st, ok))
         ELSE noCall
    ELSE IF chName = KeyBatterySlot1 THEN batteryFieldUpdate(st, 1, field, ok)
    ELSE IF chName = KeyBatterySlot2 THEN batteryFieldUpdate(st, 2, field, ok)
    ELSE IF chName = KeyPowerManager
    THEN IF field = "state" THEN oneCall(UpdatePowerManagementState(st, ok)) ELSE noCall
    ELSE IF chName = KeyMileage
    THEN IF field = "odometer" THEN oneCall(UpdateMileage(st, ok)) ELSE noCall
    ELSE IF chName = KeyFirmwareVersion
    THEN IF field = "mdb-version" THEN oneCall(UpdateFirmwareVersion(st, ok)) ELSE noCall
    ELSE IF chName = KeyBLEPairingPin
    THEN IF field = "pin-code"
         THEN IF GetString(st, KeyBLEPairingPin, "pin-code").err
                 \/ GetString(st, KeyBLEPairingPin, "pin-code").v = ""
              THEN oneCall(sendOnly(writeUARTMessage(TypeBLEPairingPinRemove, 0, 1), ok))
              ELSE noCall
         ELSE noCall
    ELSE noCall

(***************************************************************************)
(* Service.WatchRedisCommands: the body of its loop for one popped string. *)
(***************************************************************************)
KeyBLECommandList == "scooter:bluetooth"

BLECommandAdvStartWithWhitelist == 1
BLECommandAdvRestartNoWhitelist == 2
BLECommandAdvStop == 3
BLECommandDeleteBond == 4
BLECommandDeleteAllBonds == 5

\* the switch on command: the frames handed to WriteWithFrameID, none when
\* sendCmd is false
commandMessage_Shifted(command) ==
    IF command = "advertising-start-with-whitelisting"
    THEN <<writeUARTMessage(TypeBLECommand, BLECommandAdvStartWithWhitelist, 0)>>
    ELSE IF command = "advertising-restart-no-whitelisting"
    THEN <<writeUARTMessage(TypeBLECommand, BLECommandAdvRestartNoWhitelist, 0)>>
    ELSE IF command = "advertising-stop"
    THEN <<writeUARTMessage(TypeBLECommand, BLECommandAdvStop, 0)>>
    ELSE IF command = "delete-bond"
    THEN <<writeUARTMessage(TypeBLECommand, BLECommandDeleteAllBonds, 0)>>
    ELSE IF command = "delete-all-bonds"
    THEN <<writeUARTMessage(TypeBLECommand, BLECommandDeleteAllBonds, 0)>>
    ELSE IF command = "remove"
    THEN <<writeUARTMessage(TypeBLEPairingPinRemove, 0, 1)>>
    ELSE <<>>
commandMessage(command) ==
    IF command = "advertising-start-with-whitelisting"
    THEN <<writeUARTMessage(TypeBLECommand, BLECommandAdvStartWithWhitelist, 0)>>
    ELSE IF command = "advertising-restart-no-whitelisting"
    THEN <<writeUARTMessage(TypeBLECommand, BLECommandAdvRestartNoWhitelist, 0)>>
    ELSE IF command = "advertising-stop"
    THEN <<writeUARTMessage(TypeBLECommand, BLECommandAdvStop, 0)>>
    ELSE IF command = "delete-bond"
    THEN <<writeUARTMessage(TypeBLECommand, BLECommandDeleteBond, 0)>>
    ELSE IF command = "delete-all-bonds"
    THEN <<writeUARTMessage(TypeBLECommand, BLECommandDeleteAllBonds, 0)>>
    ELSE IF command = "remove"
    THEN <<writeUARTMessage(TypeBLEPairingPinRemove, 0, 1)>>
    ELSE <<>>

(***************************************************************************)
(* The effect of the recorded operations on the store, the subscribers'    *)
(* channels and the serial port.                                           *)
(***************************************************************************)
HSet(st, key, field, value) ==
    [p \in DOMAIN st \cup {<<key, field>>} |->
        IF p = <<key, field>> THEN value ELSE st[p]]

\* w is [store, lists, chans, sent]; cause tags the notifications o publishes,
\* written keeps the value the field was given when the notification was made
applyOp(w, o, cause) ==
    IF o.op = "send" THEN [w EXCEPT !.sent = Append(@, o)]
    ELSE IF o.op = "HDel"
    THEN [w EXCEPT !.store = [p \in DOMAIN w.store \ {<<o.key, o.field>>} |-> w.store[p]]]
    ELSE IF o.op = "LPush"
    THEN [w EXCEPT !.lists = <<[key |-> o.key, value |-> o.value]>> \o @]
    ELSE LET w1 == [w EXCEPT !.store = HSet(w.store, o.key, o.field, o.value)]
         IN  IF IsPublish(o) /\ o.key \in Channels
             THEN [w1 EXCEPT !.chans[o.key] =
                       Append(@, [payload |-> o.payload, cause |-> cause,
                                  written |-> o.value])]
             ELSE w1

RECURSIVE applyOps(_, _, _, _)
applyOps(w, ops, cause, i) ==
    IF i > Len(ops) THEN w
    ELSE applyOps(applyOp(w, ops[i], cause), ops, cause, i + 1)

(***************************************************************************)
(* The envelopes the nRF52 sends and the writes external producers make.   *)
(***************************************************************************)
MaxFrames == 2
MaxPublishes == 1
MaxCommands == 2

IntVal(n) == [int |-> n]
StrVal(s) == [str |-> s]
Entry(k, v) == [key |-> IntVal(k), value |-> v]

\* a frame whose payload decodes to {msgType: {entries}}
Envelope(msgType, entries) ==
    [frameID |-> msgType % 256,
     payload |-> [decodes |-> TRUE,
                  top |-> <<[key |-> msgType, params |-> [map |-> entries]]>>]]

PinDisplayEnvelope == Envelope(TypeBLEParam, <<Entry(TypeBLEPairingPinDisplay, StrVal("1234"))>>)
PinRemoveEnvelope == Envelope(TypeBLEParam, <<Entry(TypeBLEPairingPinRemove, IntVal(1))>>)
\* the removal signal in the form in which the service itself sends it
PinRemoveSignal ==
    Envelope(TypeBLEPairingPinRemove, <<Entry(TypeBLEPairingPinRemove, IntVal(1))>>)
ResetInfoEnvelope ==
    Envelope(TypeBLEDebug, <<Entry(TypeBLEReset, [arr |-> <<IntVal(2), IntVal(7)>>])>>)
PowerMuxEnvelope == Envelope(TypePowerMux, <<Entry(TypePowerMux + 1, IntVal(1))>>)
MileageEnvelope == Envelope(TypeScooterInfo, <<Entry(TypeScooterInfo + TypeMileage, IntVal(42))>>)


\* inner keys of battery envelopes: the subtypes as types.go defines them, the
\* keys the outbound path puts on the wire, and keys next to both ranges
BatteryKeys ==
    {TypeBatterySlot1State, TypeBatterySlot1Presence, TypeBatterySlot1CycleCount,
     TypeBatterySlot1Charge, TypeBatterySlot2State, TypeBatterySlot2Presence,
     TypeBatterySlot2CycleCount, TypeBatterySlot2Charge}
    \cup {TypeBattery + k : k \in {TypeBatterySlot1State, TypeBatterySlot1Presence,
                                   TypeBatterySlot1CycleCount, TypeBatterySlot1Charge,
                                   TypeBatterySlot2State, TypeBatterySlot2Presence,
                                   TypeBatterySlot2CycleCount, TypeBatterySlot2Charge}}
    \cup {TypeBattery, TypeBattery + 1, 449, 458, 470}

BatteryEnvelopes ==
    {Envelope(TypeBattery, <<Entry(k, v)>>) :
        k \in BatteryKeys, v \in {IntVal(0), IntVal(3), StrVal("x")}}
    \cup {Envelope(TypeBattery, <<Entry(450, IntVal(3)), Entry(451, IntVal(1))>>)}

BatteryInfoEnvelopes ==
    {Envelope(TypeBatteryInfo, <<Entry(TypeBatteryInfo + k, IntVal(v))>>) :
        k \in {TypeBatteryInfoStatus, TypeBatteryInfoProtectionStatus,
               TypeBatteryInfoBattStatus},
        v \in {0, 1, 4, 32, 68, 1024, 4096, 5120}}
    \cup {Envelope(TypeBatteryInfo, <<Entry(TypeBatteryInfo + k, v)>>) :
            k \in {1, TypeBatteryInfoUniqueID, TypeBatteryInfoPartNo,
                   TypeBatteryInfoPresent, TypeBatteryInfoChargeStatus, 19},
            v \in {IntVal(5), StrVal("s")}}

OtherEnvelopes ==
    {PinDisplayEnvelope, PinRemoveEnvelope, ResetInfoEnvelope, MileageEnvelope,
     PowerMuxEnvelope,
     Envelope(TypeBLEParam, <<Entry(TypeBLEPairingPinDisplay, IntVal(5))>>),
     Envelope(TypeBLEParam, <<Entry(TypeBLEParam + TypeBLEParamMACAddress, StrVal("aa:bb"))>>),
     Envelope(TypeBLEParam, <<Entry(TypeBLEStatus, StrVal("connected"))>>),
     Envelope(TypeBLEStatus, <<Entry(TypeBLEStatus, StrVal("connected"))>>),
     Envelope(TypeBLEParam, <<Entry(TypeBLEParam + TypeBLEParamData, IntVal(1))>>),
     Envelope(TypeBLEDebug, <<Entry(TypeBLEReset, [arr |-> <<IntVal(2)>>])>>),
     Envelope(TypeBLEDebug, <<Entry(TypeBLEReset, [arr |-> <<IntVal(2), StrVal("x")>>])>>),
     Envelope(TypeBLEDebug, <<Entry(TypeBLEReset, [arr |-> <<IntVal(0), IntVal(70000)>>])>>),
     Envelope(TypeBLEDebug, <<Entry(TypeBLEReset, [arr |-> <<IntVal(2), IntVal(7), IntVal(1)>>])>>),
     Envelope(TypeBLEDebug, <<Entry(TypeBLEReset, [arr |-> <<StrVal("2"), IntVal(7)>>])>>),
     Envelope(TypeBLEDebug, <<Entry(TypeBLEReset, IntVal(2))>>),
     Envelope(TypeBLEDebug, <<Entry(TypeBLEReset + 1, [arr |-> <<IntVal(2), IntVal(7)>>])>>),
     Envelope(TypeBLEDebug, <<Entry(TypeBLEDebug + TypeBLEDebugResetAck, IntVal(0))>>),
     Envelope(TypePowerMux, <<Entry(TypePowerMux + 1, IntVal(0))>>),
     Envelope(TypePowerMux, <<Entry(TypePowerMux, IntVal(1))>>),
     Envelope(TypePowerMux, <<Entry(TypePowerMux + 1, StrVal("cb"))>>),
     Envelope(TypeScooterInfo, <<Entry(TypeScooterInfo + TypeSoftwareVersion, StrVal("v1"))>>),
     Envelope(TypeBLEVersion, <<Entry(TypeBLEVersion + TypeBLEVersionString, StrVal("v2"))>>),
     Envelope(TypeDataStream, <<Entry(TypeDataStream + TypeDataStreamEnable, IntVal(1))>>),
     Envelope(TypeDataStream, <<Entry(TypeDataStream + TypeDataStreamSync, IntVal(1))>>),
     Envelope(TypeAuxBattery, <<Entry(TypeAuxBattery + TypeAuxBatteryVoltage, IntVal(7)),
                                Entry(TypeAuxBattery + TypeAuxBatteryCharge, IntVal(42))>>),
     Envelope(TypeAuxBattery, <<Entry(TypeAuxBattery + TypeAuxBatteryChargerStatus,
                                      StrVal("charging"))>>),
     Envelope(TypePowerManagement, <<Entry(TypePowerManagement + 1, IntVal(1))>>),
     Envelope(TypeVehicleState, <<Entry(TypeVehicleState + 1, IntVal(1))>>),
     Envelope(TypeBLECommand, <<Entry(TypeBLECommand + 2, IntVal(0))>>),
     Envelope(TypeEvent, <<Entry(0, StrVal("scooter:seatbox open"))>>),
     Envelope(TypeEvent, <<Entry(0, StrVal("scooter:blinker right"))>>),
     Envelope(TypeEvent, <<Entry(0, StrVal("scooter:horn on"))>>),
     Envelope(TypeEvent, <<Entry(0, IntVal(1))>>),
     Envelope(4660, <<Entry(4661, IntVal(1))>>),
     Envelope(TypeAuxBattery, <<Entry(TypeAuxBattery + TypeAuxBatteryVoltage, IntVal(7)),
                                Entry(TypeAuxBattery + TypeAuxBatteryCharge, StrVal("x")),
                                Entry(TypeAuxBattery + TypeAuxBatteryChargerStatus,
                                      StrVal("charging")),
                                Entry(TypeAuxBattery + 9, IntVal(1))>>),
     Envelope(TypeScooterInfo, <<Entry(TypeScooterInfo + TypeMileage, [other |-> TRUE]),
                                 Entry(TypeScooterInfo + TypeSoftwareVersion, StrVal("v1")),
                                 Entry(TypeScooterInfo + 9, StrVal("v1"))>>),
     Envelope(TypeBLEParam, <<Entry(TypeBLEPairingPinDisplay, IntVal(5)),
                              Entry(TypeBLEParam + TypeBLEParamMACAddress, StrVal("aa:bb")),
                              Entry(TypeBLEStatus, StrVal("connected"))>>),
     Envelope(TypeBatteryInfo, <<Entry(TypeBatteryInfo + 1, IntVal(5)),
                                 Entry(TypeBatteryInfo + TypeBatteryInfoProtectionStatus,
                                       StrVal("4")),
                                 Entry(TypeBatteryInfo + TypeBatteryInfoUniqueID, StrVal("s")),
                                 Entry(TypeBatteryInfo + 19, IntVal(5))>>),
     Envelope(TypeBLEParam, <<>>),
     Envelope(TypeBLEParam, <<[key |-> StrVal("k"), value |-> IntVal(1)],
                              Entry(65536 + TypeBLEPairingPinRemove, IntVal(1))>>)}

MalformedFrames ==
    {[frameID |-> 0, payload |-> [decodes |-> FALSE, top |-> <<>>]],
     [frameID |-> 192, payload |-> [decodes |-> TRUE, top |-> <<>>]],
     [frameID |-> 0, payload |->
        [decodes |-> TRUE,
         top |-> <<[key |-> TypeEvent, params |-> StrVal("scooter:blinker right")]>>]],
     [frameID |-> 128, payload |->
        [decodes |-> TRUE,
         top |-> <<[key |-> TypeBLEParam,
                    params |-> [map |-> <<Entry(TypeBLEPairingPinRemove, IntVal(1))>>]],
                   [key |-> TypePowerMux,
                    params |-> [map |-> <<Entry(TypePowerMux + 1, IntVal(1))>>]]>>]]}

\* a frame whose inner map is empty, as the nRF52 acknowledges a command
AckEnvelope == Envelope(TypeBLEParam, <<>>)

\* the envelopes of the concurrent scenario
SmallPool ==
    {PinDisplayEnvelope, PinRemoveEnvelope, PinRemoveSignal, ResetInfoEnvelope, AckEnvelope}
    \cup MalformedFrames

\* the envelopes of the single-envelope scenarios
WidePool == BatteryEnvelopes \cup BatteryInfoEnvelopes \cup OtherEnvelopes \cup MalformedFrames

\* the envelopes of the event, power-mux and battery-info scenarios: every
\* status and protection-status value over bits 2..14, and values with bits
\* outside that range or below zero
HandlerPool ==
    {Envelope(TypeEvent, <<Entry(k, v)>>) :
        k \in {0, 1},
        v \in {StrVal(e) : e \in {"scooter:state unlock", "scooter:state lock",
                                  "scooter:seatbox open", "scooter:blinker right",
                                  "scooter:blinker left", "scooter:blinker both",
                                  "scooter:blinker off", "scooter:horn on",
                                  "scooter:blinker", "scooter:blinker right ",
                                  "Scooter:State Lock", "unlock", ""}}
           \cup {IntVal(1), [arr |-> <<StrVal("scooter:state lock")>>], [other |-> TRUE]}}
    \cup {[frameID |-> 0, payload |->
             [decodes |-> TRUE,
              top |-> <<[key |-> TypeEvent, params |-> StrVal("scooter:blinker right")]>>]]}
    \cup {Envelope(TypePowerMux, <<Entry(k, v)>>) :
            k \in {TypePowerMux, TypePowerMux + 1, TypePowerMux + 9, 80, 65535},
            v \in {IntVal(0), IntVal(1), IntVal(2), IntVal(-1), IntVal(65536),
                   StrVal("aux"), StrVal("0"), [arr |-> <<IntVal(0)>>], [other |-> TRUE]}}
    \cup {Envelope(TypeBatteryInfo, <<Entry(TypeBatteryInfo + k, v)>>) :
            k \in {TypeBatteryInfoStatus, TypeBatteryInfoProtectionStatus},
            v \in {IntVal(4 * w) : w \in 0..8191}
                  \cup {IntVal(1), IntVal(3), IntVal(5), IntVal(32768), IntVal(32772),
                        IntVal(65536), IntVal(-1), IntVal(-4), IntVal(-32768),
                        StrVal("4"), [other |-> TRUE]}}

\* what an external producer writes, and the two payload forms it may publish:
\* the field name alone, or "<field>:<value>"
ExternalWrites ==
    {[key |-> KeyVehicle, field |-> "state", value |-> "running"],
     [key |-> KeyBatterySlot1, field |-> "present", value |-> "true"],
     [key |-> KeyBLEPairingPin, field |-> "pin-code", value |-> ""]}

\* what external producers write to the fields the subscribers watch
OutboundWrites ==
    {[key |-> KeyVehicle, field |-> "state", value |-> v] :
        v \in {"standby", "parked", "ready-to-drive", "shutting-down", "updating", "off",
               "running", "closed", "open", "2", "7", "65537", "-1", "bogus", ""}}
    \cup {[key |-> KeyVehicle, field |-> "seatbox:lock", value |-> v] :
            v \in {"closed", "open", "off", "3", "65537", "bogus"}}
    \cup {[key |-> KeyVehicle, field |-> "handlebar:lock-sensor", value |-> v] :
            v \in {"locked", "unlocked", "open", "1", "Unlocked", ""}}
    \cup {[key |-> k, field |-> "state", value |-> v] :
            k \in {KeyBatterySlot1, KeyBatterySlot2},
            v \in {"unknown", "asleep", "idle", "active", "3", "bogus"}}
    \cup {[key |-> k, field |-> "present", value |-> v] :
            k \in {KeyBatterySlot1, KeyBatterySlot2},
            v \in {"true", "false", "1", "0", "2", "bogus"}}
    \cup {[key |-> k, field |-> f, value |-> v] :
            k \in {KeyBatterySlot1, KeyBatterySlot2},
            f \in {"cycle-count", "charge"},
            v \in {"42", "0", "65537", "x"}}
    \cup {[key |-> KeyPowerManager, field |-> "state", value |-> v] :
            v \in {"running", "suspending", "hibernating", "hibernating-l2",
                   "suspending-imminent", "hibernating-imminent", "reboot",
                   "reboot-imminent", "bogus", "2", ""}}
    \cup {[key |-> KeyMileage, field |-> "odometer", value |-> v] :
            v \in {"42", "65537", "-1", "x"}}
    \cup {[key |-> KeyFirmwareVersion, field |-> "mdb-version", value |-> v] :
            v \in {"v1.2", ""}}
    \cup {[key |-> KeyBLEPairingPin, field |-> "pin-code", value |-> v] :
            v \in {"1234", ""}}
    \cup {[key |-> KeyVehicle, field |-> "blinker:state", value |-> "off"],
          [key |-> KeyMileage, field |-> "speed", value |-> "7"]}

\* the first of two changes an external producer makes to a field
PendingWrites ==
    {[key |-> KeyVehicle, field |-> "state", value |-> "parked"],
     [key |-> KeyVehicle, field |-> "seatbox:lock", value |-> "open"],
     [key |-> KeyMileage, field |-> "odometer", value |-> "42"],
     [key |-> KeyBatterySlot1, field |-> "charge", value |-> "42"],
     [key |-> KeyBatterySlot2, field |-> "cycle-count", value |-> "42"]}

\* the strings external producers push onto scooter:bluetooth
Commands ==
    {"advertising-start-with-whitelisting", "advertising-restart-no-whitelisting",
     "advertising-stop", "delete-bond", "delete-all-bonds", "remove",
     "delete-bonds", "Remove", ""}

(***************************************************************************)
(* The service as a state machine.                                         *)
(***************************************************************************)
NoNotifications == [c \in Channels |-> <<>>]

IdleService ==
    /\ pool = {}
    /\ store = <<>> /\ lists = <<>> /\ chans = <<>>
    /\ nrx = 0 /\ pending = {} /\ handled = <<>>
    /\ npub = 0 /\ notified = <<>> /\ sent = <<>>
    /\ cmds = <<>> /\ popped = <<>>

\* the service after start-up, with the envelopes p to come
InitServiceWith(p) ==
    /\ pool = p
    /\ store = <<>>
    /\ lists = <<>>
    /\ chans = NoNotifications
    /\ nrx = 0 /\ pending = {} /\ handled = <<>>
    /\ npub = 0 /\ notified = <<>> /\ sent = <<>>
    /\ cmds = <<>> /\ popped = <<>>

\* processByte completes a frame and starts its handler: go u.handler(ID, &Payload)
Receive(env) ==
    /\ env \in pool
    /\ nrx < MaxFrames
    /\ nrx' = nrx + 1
    /\ pending' = pending \cup {[seq |-> nrx + 1, env |-> env]}
    /\ UNCHANGED <<pool, store, lists, chans, handled, npub, notified, sent, cmds, popped>>
    /\ UNCHANGED <<codecVars, crcVars, writerVars, taskVars>>

\* a handler task runs Service.HandleUSockMessage; order is the order in which
\* the range over paramMap visits the entries.  With up = FALSE the store is
\* unreachable while the handler runs: every store call returns an error,
\* which the handlers log and ignore
Handle(h, order, up) ==
    /\ h \in pending
    /\ order \in RangeOrders(rangeLen(h.env.payload))
    /\ LET ops == HandleUSockMessage(h.env.frameID, h.env.payload, order)
           done == IF up THEN ops ELSE SelectSeq(ops, LAMBDA o : o.op = "send")
           w == applyOps([store |-> store, lists |-> lists, chans |-> chans, sent |-> sent],
                         done, "inbound", 1)
       IN  /\ store' = w.store
           /\ lists' = w.lists
           /\ chans' = w.chans
           /\ sent' = w.sent
           /\ handled' = Append(handled, [seq |-> h.seq, env |-> h.env, ops |-> ops,
                                          up |-> up])
    /\ pending' = pending \ {h}
    /\ UNCHANGED <<pool, nrx, npub, notified, cmds, popped>>
    /\ UNCHANGED <<codecVars, crcVars, writerVars, taskVars>>

\* an external producer writes a field and publishes on the key's channel
ExternalPublish(x, payload) ==
    /\ npub < MaxPublishes
    /\ npub' = npub + 1
    /\ store' = HSet(store, x.key, x.field, x.value)
    /\ chans' = [chans EXCEPT ![x.key] =
                     Append(@, [payload |-> payload, cause |-> "external",
                                written |-> x.value])]
    /\ UNCHANGED <<pool, lists, nrx, pending, handled, notified, sent, cmds, popped>>
    /\ UNCHANGED <<codecVars, crcVars, writerVars, taskVars>>

SubscriberHandle_PublishedValue(c, ok) ==
    /\ chans[c] # <<>>
    /\ LET msg == Head(chans[c])
           r == onMessage(HSet(store, c, msg.payload, msg.written), c, msg.payload, ok)
       IN  /\ sent' = sent \o r.sends
           /\ notified' = Append(notified, [chan |-> c, payload |-> msg.payload,
                                            cause |-> msg.cause, st |-> store, ok |-> ok,
                                            written |-> msg.written,
                                            sends |-> r.sends, errs |-> r.errs])
    /\ chans' = [chans EXCEPT ![c] = Tail(@)]
    /\ UNCHANGED <<pool, store, lists, nrx, pending, handled, npub, cmds, popped>>
    /\ UNCHANGED <<codecVars, crcVars, writerVars, taskVars>>
\* the subscriber task of channel c takes the next message off its channel;
\* st is the store it reads, ok the outcomes of its port writes
SubscriberHandle(c, ok) ==
    /\ chans[c] # <<>>
    /\ LET msg == Head(chans[c])
           r == onMessage(store, c, msg.payload, ok)
       IN  /\ sent' = sent \o r.sends
           /\ notified' = Append(notified, [chan |-> c, payload |-> msg.payload,
                                            cause |-> msg.cause, st |-> store, ok |-> ok,
                                            written |-> msg.written,
                                            sends |-> r.sends, errs |-> r.errs])
    /\ chans' = [chans EXCEPT ![c] = Tail(@)]
    /\ UNCHANGED <<pool, store, lists, nrx, pending, handled, npub, cmds, popped>>
    /\ UNCHANGED <<codecVars, crcVars, writerVars, taskVars>>

\* an external producer deletes a field and publishes its name on the key's channel
ExternalDelete(key, field) ==
    /\ npub < MaxPublishes
    /\ npub' = npub + 1
    /\ store' = [p \in DOMAIN store \ {<<key, field>>} |-> store[p]]
    /\ chans' = [chans EXCEPT ![key] =
                     Append(@, [payload |-> field, cause |-> "external", written |-> ""])]
    /\ UNCHANGED <<pool, lists, nrx, pending, handled, notified, sent, cmds, popped>>
    /\ UNCHANGED <<codecVars, crcVars, writerVars, taskVars>>

\* an external producer left-pushes a string onto the list scooter:bluetooth
PushCommand(command) ==
    /\ Len(cmds) + Len(popped) < MaxCommands
    /\ cmds' = <<command>> \o cmds
    /\ UNCHANGED <<pool, store, lists, chans, nrx, pending, handled, npub, notified, sent,
                   popped>>
    /\ UNCHANGED <<codecVars, crcVars, writerVars, taskVars>>

\* one round of the loop of Service.WatchRedisCommands: BRPOP takes the
\* rightmost string; ok is the outcome of the port write
WatchRedisCommands(ok) ==
    /\ cmds # <<>>
    /\ LET command == cmds[Len(cmds)]
           sends == commandMessage(command)
       IN  /\ sent' = sent \o sends
           /\ popped' = Append(popped, [command |-> command, sends |-> sends,
                                        failed |-> sends # <<>> /\ ~ok[1]])
    /\ cmds' = SubSeq(cmds, 1, Len(cmds) - 1)
    /\ UNCHANGED <<pool, store, lists, chans, nrx, pending, handled, npub, notified>>
    /\ UNCHANGED <<codecVars, crcVars, writerVars, taskVars>>

(***************************************************************************)
(* main (cmd/bluetooth-service) and the tasks it starts.                   *)
(***************************************************************************)
\* main has called usock.New, which started readLoop, and nothing else yet
IdleTasks ==
    /\ mainPc = "start" /\ mainLog = <<>>
    /\ stopCh = FALSE /\ watcher = "none" /\ subscribers = {}
    /\ stopChan = FALSE /\ reader = "select"
    /\ portClosed = FALSE /\ redisClosed = FALSE

\* Service.InitializeNRF52: the six messages, in program order
InitFrames ==
    << writeUARTMessage(TypeDataStream, TypeDataStreamEnable, 0),
       writeUARTMessage(TypeBLEVersion, TypeBLEVersionString, 0),
       writeUARTMessage(TypeBLEParam, TypeBLEParamMACAddress, 0),
       writeUARTMessage(TypeDataStream, TypeDataStreamEnable, 1),
       writeUARTMessage(TypeDataStream, TypeDataStreamSync, 1),
       writeUARTMessage(TypeBLECommand, BLECommandAdvRestartNoWhitelist, 0) >>

\* the i-th of the fourteen initial state updates of main
initialPush(st, i, ok) ==
    CASE i = 1 -> UpdateVehicleState(st, ok)
      [] i = 2 -> UpdateSeatboxLock(st, ok)
      [] i = 3 -> UpdateHandlebarLock(st, ok)
      [] i = 4 -> UpdateMileage(st, ok)
      [] i = 5 -> UpdateFirmwareVersion(st, ok)
      [] i = 14 -> UpdatePowerManagementState(st, ok)
      [] i \in 6..13 ->
            LET slot == 1 + ((i - 6) \div 4)
                call == (i - 6) % 4
            IN  CASE call = 0 -> UpdateBatteryPresentStatus(st, slot, ok)
                  [] call = 1 -> UpdateBatteryActiveStatus(st, slot, ok)
                  [] call = 2 -> UpdateBatteryCycleCount(st, slot, ok)
                  [] call = 3 -> UpdateBatteryRemainingCharge(st, slot, ok)

\* main: go svc.WatchRedisCommands() and svc.SubscribeToRedisChannels()
StartTasks ==
    /\ mainPc = "start"
    /\ mainPc' = "init"
    /\ watcher' = "select"
    /\ subscribers' = Channels
    /\ UNCHANGED <<mainLog, stopCh, stopChan, reader, portClosed, redisClosed>>
    /\ UNCHANGED <<codecVars, crcVars, writerVars, serviceVars>>

InitializeNRF52_AbortOnError(ok) ==
    /\ mainPc = "init"
    /\ LET i == Len(mainLog) + 1
           r == sendOnly(InitFrames[i], ok)
       IN  /\ mainLog' = Append(mainLog, [call |-> "init", sends |-> r.sends, err |-> r.err])
           /\ sent' = sent \o r.sends
           /\ mainPc' = IF i = Len(InitFrames) \/ r.err THEN "push" ELSE "init"
    /\ UNCHANGED <<stopCh, watcher, subscribers, stopChan, reader, portClosed, redisClosed>>
    /\ UNCHANGED <<pool, store, lists, chans, nrx, pending, handled, npub, notified, cmds,
                   popped>>
    /\ UNCHANGED <<codecVars, crcVars, writerVars>>
\* the next message of Service.InitializeNRF52; a failed send is logged
InitializeNRF52(ok) ==
    /\ mainPc = "init"
    /\ LET i == Len(mainLog) + 1
           r == sendOnly(InitFrames[i], ok)
       IN  /\ mainLog' = Append(mainLog, [call |-> "init", sends |-> r.sends, err |-> r.err])
           /\ sent' = sent \o r.sends
           /\ mainPc' = IF i = Len(InitFrames) THEN "push" ELSE "init"
    /\ UNCHANGED <<stopCh, watcher, subscribers, stopChan, reader, portClosed, redisClosed>>
    /\ UNCHANGED <<pool, store, lists, chans, nrx, pending, handled, npub, notified, cmds,
                   popped>>
    /\ UNCHANGED <<codecVars, crcVars, writerVars>>

\* the next initial state update of main; its error is logged
InitialPush(ok) ==
    /\ mainPc = "push"
    /\ LET i == Len(mainLog) - Len(InitFrames) + 1
           r == initialPush(store, i, ok)
       IN  /\ mainLog' = Append(mainLog, [call |-> "push", sends |-> r.sends])
           /\ sent' = sent \o r.sends
           /\ mainPc' = IF i = 14 THEN "wait" ELSE "push"
    /\ UNCHANGED <<stopCh, watcher, subscribers, stopChan, reader, portClosed, redisClosed>>
    /\ UNCHANGED <<pool, store, lists, chans, nrx, pending, handled, npub, notified, cmds,
                   popped>>
    /\ UNCHANGED <<codecVars, crcVars, writerVars>>

\* main receives SIGINT or SIGTERM and calls Service.Stop: close(s.stopCh)
Stop ==
    /\ mainPc = "wait"
    /\ stopCh' = TRUE
    /\ mainPc' = "close"
    /\ UNCHANGED <<mainLog, watcher, subscribers, stopChan, reader, portClosed, redisClosed>>
    /\ UNCHANGED <<codecVars, crcVars, writerVars, serviceVars>>

\* the deferred USOCK.Close: close(u.stopChan), u.wg.Wait(), u.port.Close()
Close ==
    /\ \/ mainPc = "close" /\ stopChan' = TRUE /\ mainPc' = "join"
          /\ UNCHANGED portClosed
       \/ mainPc = "join" /\ reader = "done" /\ mainPc' = "portclose"
          /\ UNCHANGED <<stopChan, portClosed>>
       \/ mainPc = "portclose" /\ portClosed' = TRUE /\ mainPc' = "redisclose"
          /\ UNCHANGED stopChan
    /\ UNCHANGED <<mainLog, stopCh, watcher, subscribers, reader, redisClosed>>
    /\ UNCHANGED <<codecVars, crcVars, writerVars, serviceVars>>

\* the deferred redisClient.Close(), after which main returns
MainReturn ==
    /\ mainPc = "redisclose"
    /\ redisClosed' = TRUE
    /\ mainPc' = "returned"
    /\ UNCHANGED <<mainLog, stopCh, watcher, subscribers, stopChan, reader, portClosed>>
    /\ UNCHANGED <<codecVars, crcVars, writerVars, serviceVars>>

WatcherSelect_NoStop ==
    /\ watcher = "select"
    /\ watcher' = "brpop"
    /\ UNCHANGED <<mainPc, mainLog, stopCh, subscribers, stopChan, reader, portClosed,
                   redisClosed>>
    /\ UNCHANGED <<codecVars, crcVars, writerVars, serviceVars>>
\* the select of WatchRedisCommands: return when stopCh is closed, else BRPop
\* with timeout 0
WatcherSelect ==
    /\ watcher = "select"
    /\ watcher' = IF stopCh THEN "done" ELSE "brpop"
    /\ UNCHANGED <<mainPc, mainLog, stopCh, subscribers, stopChan, reader, portClosed,
                   redisClosed>>
    /\ UNCHANGED <<codecVars, crcVars, writerVars, serviceVars>>

\* BRPop on the empty list returns an error, which the loop logs before it
\* continues
BRPopError ==
    /\ watcher = "brpop"
    /\ cmds = <<>>
    /\ watcher' = "select"
    /\ UNCHANGED <<mainPc, mainLog, stopCh, subscribers, stopChan, reader, portClosed,
                   redisClosed>>
    /\ UNCHANGED <<codecVars, crcVars, writerVars, serviceVars>>

\* the select of readLoop: return when stopChan is closed, else port.Read
\* with no timeout
readLoop ==
    /\ reader = "select"
    /\ reader' = IF stopChan THEN "done" ELSE "read"
    /\ UNCHANGED <<mainPc, mainLog, stopCh, watcher, subscribers, stopChan, portClosed,
                   redisClosed>>
    /\ UNCHANGED <<codecVars, crcVars, writerVars, serviceVars>>

\* port.Read on the silent line returns an error or no byte, and the loop
\* continues
ReadError ==
    /\ reader = "read"
    /\ line = <<>>
    /\ reader' = "select"
    /\ UNCHANGED <<mainPc, mainLog, stopCh, watcher, subscribers, stopChan, portClosed,
                   redisClosed>>
    /\ UNCHANGED <<codecVars, crcVars, writerVars, serviceVars>>

\* the message channel of subscriber c is closed, which ends its range loop;
\* nothing in the service closes it before the store client is closed
SubscriberExit(c) ==
    /\ c \in subscribers
    /\ redisClosed
    /\ subscribers' = subscribers \ {c}
    /\ UNCHANGED <<mainPc, mainLog, stopCh, watcher, stopChan, reader, portClosed,
                   redisClosed>>
    /\ UNCHANGED <<codecVars, crcVars, writerVars, serviceVars>>

\* the blocking BRPop of the watcher task returns the rightmost string of the
\* list; late tells whether stopCh was closed by then
BRPop ==
    /\ watcher = "brpop"
    /\ cmds # <<>>
    /\ popped' = Append(popped, [command |-> cmds[Len(cmds)], sends |-> <<>>,
                                 failed |-> FALSE, late |-> stopCh, lateSend |-> FALSE])
    /\ cmds' = SubSeq(cmds, 1, Len(cmds) - 1)
    /\ watcher' = "send"
    /\ UNCHANGED <<mainPc, mainLog, stopCh, subscribers, stopChan, reader, portClosed,
                   redisClosed>>
    /\ UNCHANGED <<pool, store, lists, chans, nrx, pending, handled, npub, notified, sent>>
    /\ UNCHANGED <<codecVars, crcVars, writerVars>>

\* the watcher task maps the popped string and sends its frame, if it has
\* one, then goes back to the select
SendCommand(ok) ==
    /\ watcher = "send"
    /\ LET n == Len(popped)
           sends == commandMessage(popped[n].command)
       IN  /\ sent' = sent \o sends
           /\ popped' = [popped EXCEPT ![n] =
                             [@ EXCEPT !.sends = sends,
                                       !.failed = sends # <<>> /\ ~ok[1],
                                       !.lateSend = stopCh]]
    /\ watcher' = "select"
    /\ UNCHANGED <<mainPc, mainLog, stopCh, subscribers, stopChan, reader, portClosed,
                   redisClosed>>
    /\ UNCHANGED <<pool, store, lists, chans, nrx, pending, handled, npub, notified, cmds>>
    /\ UNCHANGED <<codecVars, crcVars, writerVars>>

NextInbound ==
    \/ \E env \in pool : Receive(env)
    \/ \E h \in pending : \E order \in RangeOrders(rangeLen(h.env.payload)) :
           \E up \in BOOLEAN : Handle(h, order, up)
    \/ \E c \in Channels : SubscriberHandle(c, PortHealthy)

NextService ==
    \/ \E env \in pool : Receive(env)
    \/ \E h \in pending : \E order \in RangeOrders(rangeLen(h.env.payload)) :
           Handle(h, order, TRUE)
    \/ \E x \in ExternalWrites :
           \E payload \in {x.field, PublishPayload(x.field, x.value)} : ExternalPublish(x, payload)
    \/ \E c \in Channels : SubscriberHandle(c, PortHealthy)

NextWriters ==
    \/ \E t \in Tasks : Lock(t)
    \/ \E t \in Tasks : PortWrite(t)
    \/ \E t \in Tasks : PortWriteError(t)
    \/ \E t \in Tasks : Unlock(t)
    \/ PortFail

InitW == InitWriters /\ IdleCodec /\ IdleService /\ IdleTasks

SpecWriters == InitW /\ [][NextWriters]_vars

NextCodec == WriteFrame \/ LineNoise \/ ReadByte

InitC == InitCodec /\ IdleWriters /\ IdleService /\ IdleTasks

SpecCodec == InitC /\ [][NextCodec]_vars

InitS == InitServiceWith(SmallPool) /\ IdleCodec /\ IdleWriters /\ IdleTasks

SpecService == InitS /\ [][NextService]_vars

InitI ==
    (\E env \in WidePool : InitServiceWith({env})) /\ IdleCodec /\ IdleWriters /\ IdleTasks

SpecInbound == InitI /\ [][NextInbound]_vars

\* protection-status (11) and battery-status (15) entries, alone and two in
\* one envelope, with an alert entry and a non-integer entry beside them
FaultPool ==
    {Envelope(TypeBatteryInfo, <<Entry(TypeBatteryInfo + k, IntVal(v))>>) :
        k \in {TypeBatteryInfoProtectionStatus, TypeBatteryInfoBattStatus},
        v \in {0, 1, 4, 1024, 2048, 3072, 4096, 7168, 5124}}
    \cup {Envelope(TypeBatteryInfo,
                   <<Entry(TypeBatteryInfo + TypeBatteryInfoProtectionStatus, IntVal(v)),
                     Entry(TypeBatteryInfo + TypeBatteryInfoBattStatus, IntVal(w))>>) :
            v \in {0, 4}, w \in {0, 2048}}
    \cup {Envelope(TypeBatteryInfo, <<Entry(TypeBatteryInfo + TypeBatteryInfoStatus, IntVal(4))>>),
          Envelope(TypeBatteryInfo,
                   <<Entry(TypeBatteryInfo + TypeBatteryInfoBattStatus, StrVal("x"))>>)}

InitF == InitServiceWith(FaultPool) /\ IdleCodec /\ IdleWriters /\ IdleTasks

NextHandlers ==
    \/ \E env \in pool : Receive(env)
    \/ \E h \in pending : \E order \in RangeOrders(rangeLen(h.env.payload)) :
           Handle(h, order, TRUE)

InitH ==
    (\E env \in HandlerPool : InitServiceWith({env})) /\ IdleCodec /\ IdleWriters /\ IdleTasks

SpecHandlers == InitH /\ [][NextHandlers]_vars

SpecFault == InitF /\ [][NextHandlers]_vars

NextOutbound ==
    \/ \E x \in OutboundWrites : ExternalPublish(x, x.field)
    \/ \E x \in OutboundWrites : ExternalDelete(x.key, x.field)
    \/ \E c \in Channels : \E ok \in PortOutcomes : SubscriberHandle(c, ok)

InitO == InitServiceWith({}) /\ IdleCodec /\ IdleWriters /\ IdleTasks

SpecOutbound == InitO /\ [][NextOutbound]_vars

\* the service with one published change that no subscriber has handled yet;
\* npub counts the publishes that follow it
InitPending ==
    /\ \E x \in PendingWrites :
           /\ store = HSet(<<>>, x.key, x.field, x.value)
           /\ chans = [NoNotifications EXCEPT ![x.key] =
                          <<[payload |-> x.field, cause |-> "external",
                             written |-> x.value]>>]
    /\ pool = {} /\ lists = <<>>
    /\ nrx = 0 /\ pending = {} /\ handled = <<>>
    /\ npub = 0 /\ notified = <<>> /\ sent = <<>>
    /\ cmds = <<>> /\ popped = <<>>
    /\ IdleCodec /\ IdleWriters /\ IdleTasks

SpecPending == InitPending /\ [][NextOutbound]_vars

NextCommands ==
    \/ \E command \in Commands : PushCommand(command)
    \/ \E ok \in PortOutcomes : WatchRedisCommands(ok)

SpecCommands == InitO /\ [][NextCommands]_vars

\* main and its tasks on a silent line, with an empty command list and no
\* publisher
NextLifecycle ==
    \/ StartTasks
    \/ \E ok \in PortOutcomes : InitializeNRF52(ok)
    \/ \E ok \in PortOutcomes : InitialPush(ok)
    \/ Stop
    \/ Close
    \/ MainReturn
    \/ WatcherSelect
    \/ BRPopError
    \/ readLoop
    \/ ReadError
    \/ \E c \in Channels : SubscriberExit(c)

\* every task that can take a step of its own code eventually takes it; the
\* signal, the errors of the store and of the port and the closing of the
\* message channels are left to the environment
SpecLifecycle ==
    /\ InitO
    /\ [][NextLifecycle]_vars
    /\ WF_vars(StartTasks)
    /\ WF_vars(\E ok \in PortOutcomes : InitializeNRF52(ok))
    /\ WF_vars(\E ok \in PortOutcomes : InitialPush(ok))
    /\ WF_vars(Close)
    /\ WF_vars(MainReturn)
    /\ WF_vars(WatcherSelect)
    /\ WF_vars(readLoop)

\* main up to the call of Service.Stop and the watcher task, with producers
\* that push commands at any time
NextShutdown ==
    \/ StartTasks
    \/ InitializeNRF52(PortHealthy)
    \/ InitialPush(PortHealthy)
    \/ Stop
    \/ WatcherSelect
    \/ BRPopError
    \/ \E command \in {"advertising-stop", "remove", "Remove"} : PushCommand(command)
    \/ BRPop
    \/ \E ok \in PortOutcomes : SendCommand(ok)

SpecShutdown == InitO /\ [][NextShutdown]_vars

NextCRC == \E b \in CrcBytes(Len(crcData) + 1) : crcLoop(b)

InitCRC == IdleCodec /\ IdleWriters /\ IdleService /\ IdleTasks

SpecCRC == InitCRC /\ [][NextCRC]_vars

(***************************************************************************)
(* Claims about the frame codec, checked under SpecCodec.                  *)
(***************************************************************************)
\* every byte of the line has been through processByte
AllRead == phase = "rx" /\ line = <<>>

Accepted(id, data) ==
    \E i \in 1..Len(handlerCalls) :
        handlerCalls[i].ID = id /\ handlerCalls[i].Data = data

\* C1: round trip. Feeding the bytes of WriteWithFrameID(id, payload), for any
\* payload of 0..1024 bytes, into processByte from Sync1 invokes the handler
\* exactly once, with ID = id and Data = payload.
C1_RoundTrip ==
    (AllRead /\ garbage = <<>> /\ noisePos = 0 /\ Len(txData) <= MaxPayloadLength)
        => /\ Len(handlerCalls) = 1
           /\ handlerCalls[1].ID = txId
           /\ handlerCalls[1].Data = txData
           /\ handlerCalls[1].Size = Len(txData)

\* C2: the handler is invoked only with a frame whose received header CRC is the
\* CRC-16/ARC of its five header bytes, whose received payload CRC is the
\* CRC-16/ARC of the accumulated payload, and whose declared length is <= 1024.
C2_DeliveredOnlyIfValid ==
    \A i \in 1..Len(handlerCalls) :
        LET c == handlerCalls[i]
        IN  /\ c.HeaderCRC = calculateCRC16(<<SyncByte1, SyncByte2, c.ID,
                                              c.Len % 256, c.Len \div 256>>, 0)
            /\ c.PayloadCRC = calculateCRC16(c.Data, 0)
            /\ c.Len <= MaxPayloadLength

\* C2 witness: a frame has been delivered from a line that also carried garbage
C2_Witness == handlerCalls # <<>> /\ garbage # <<>> /\ AllRead

\* C3: resynchronisation. After any garbage prefix, a valid frame is delivered by
\* the time its last byte has been processed. (Stated for non-empty payloads,
\* which do round-trip on a clean line, so that a violation is the
\* resynchronisation's own.)
C3_Resync ==
    (AllRead /\ noisePos = 0 /\ Len(txData) \in 1..MaxPayloadLength)
        => Accepted(txId, txData)

\* C4 as claimed: with one byte of the frame replaced by a different value, the
\* decoder delivers no frame at all.
C4_NoDelivery == noisePos # 0 => handlerCalls = <<>>

\* C4 as amended: with one byte of the frame replaced, the corrupted frame is
\* never accepted; whatever is delivered is a shorter frame embedded in the
\* original frame's payload bytes, never the original id and payload.
C4_CorruptedFrameRejected ==
    noisePos # 0 =>
        \A i \in 1..Len(handlerCalls) :
            /\ Len(handlerCalls[i].Data) < Len(txData)
            /\ ~(handlerCalls[i].ID = txId /\ handlerCalls[i].Data = txData)

\* C4 witness: a corrupted frame has been read to its last byte and rejected
C4_Witness == noisePos # 0 /\ AllRead /\ txData = <<1>> /\ handlerCalls = <<>>

(***************************************************************************)
(* Claims about concurrent senders, checked under SpecWriters.             *)
(***************************************************************************)
\* the tasks between u.mu.Lock() and the deferred u.mu.Unlock()
Holders == {t \in Tasks : wpc[t] \in {"write", "unlock"}}

\* the bytes task t has put on the port so far
wrote(t) == SubSeq(wframe[t], 1, wn[t])

RECURSIVE ConcatWrote(_, _)
ConcatWrote(ord, i) ==
    IF i > Len(ord) THEN <<>> ELSE wrote(ord[i]) \o ConcatWrote(ord, i + 1)

\* the orders in which the tasks that have written can be arranged
WriteOrders ==
    LET W == {t \in Tasks : wn[t] > 0}
    IN  {ord \in [1..Cardinality(W) -> W] :
            \A i, j \in 1..Cardinality(W) : i # j => ord[i] # ord[j]}

\* C5: at most one task holds the serial port at any instant, and the bytes on
\* the port are the frames of the callers laid end to end in some order, each
\* caller that returned nil having contributed its complete frame: no two
\* frames' bytes interleave.
C5_SerializedWrites ==
    /\ Cardinality(Holders) <= 1
    /\ \E ord \in WriteOrders : port = ConcatWrote(ord, 1)
    /\ \A t \in Tasks :
           wret[t] = "nil" => wrote(t) = WriteWithFrameID(wargs[t].id, wargs[t].data).bytes

\* C5 witness: every caller has returned nil and all their frames are on the port
C5_Witness ==
    /\ \A t \in Tasks : wpc[t] = "done" /\ wret[t] = "nil"
    /\ Len(port) > Len(wframe[1])

(***************************************************************************)
(* Claims about the service, checked under SpecService and SpecInbound.    *)
(***************************************************************************)
\* C6: handler invocations run in receipt order: when frame A was completed
\* by the receive task before frame B, the handler's store writes and sends
\* for A happen before those for B.
C6_HandledInReceiptOrder ==
    \A i, j \in 1..Len(handled) : i < j => handled[i].seq < handled[j].seq

\* C7: echo suppression: no subscriber sends an outbound frame as a
\* consequence of a write, delete or publish made by an inbound handler.
C7_EchoSuppression ==
    \A i \in 1..Len(notified) : notified[i].cause = "inbound" => notified[i].sends = <<>>

\* the subscriber of channel ble consumed the notification of an inbound
\* pin removal while the store held no pin
C7_Witness ==
    \E i \in 1..Len(notified) :
        /\ notified[i].cause = "inbound"
        /\ notified[i].chan = KeyBLEPairingPin
        /\ notified[i].payload = "pin-code:"
        /\ GetString(store, KeyBLEPairingPin, "pin-code").v = ""

\* C8 as stated: no inbound handler publishes: every store mutation it makes
\* is a non-publishing operation.
C8_NoInboundPublish ==
    \A i \in 1..Len(handled) :
        \A k \in 1..Len(handled[i].ops) : ~IsPublish(handled[i].ops[k])

\* the three fields inbound handlers write and publish
InboundPublishedFields ==
    {<<KeyBLEPairingPin, "pin-code">>,
     <<KeyPowerManager, "nrf-reset-reason">>,
     <<"power-mux", "selected-input">>}

\* C8 amended: an inbound handler mutates the store through non-publishing
\* operations, except for the write-and-publish of ble.pin-code,
\* power-manager.nrf-reset-reason and power-mux.selected-input; the
\* notifications these make reach only the subscribers of ble and power-manager.
C8_PublishOnlyThreeFields ==
    /\ \A i \in 1..Len(handled) :
           \A k \in 1..Len(handled[i].ops) :
               LET o == handled[i].ops[k]
               IN  \/ o.op \in {"send", "WriteInt", "WriteString", "HDel", "LPush"}
                   \/ IsPublish(o) /\ <<o.key, o.field>> \in InboundPublishedFields
    /\ \A i \in 1..Len(notified) :
           notified[i].cause = "inbound" =>
               notified[i].chan \in {KeyBLEPairingPin, KeyPowerManager}

\* a reset-info envelope was handled: one plain write, one publishing write
C8_Witness ==
    \E i \in 1..Len(handled) :
        /\ Len(handled[i].ops) = 3
        /\ handled[i].ops[1].op = "WriteInt"
        /\ handled[i].ops[2].op = "WriteAndPublishInt"
        /\ handled[i].ops[2].field = "nrf-reset-reason"

\* C9: a publish on channel vehicle with payload "state:running", the store
\* holding vehicle.state = running, makes the subscriber send exactly one
\* frame carrying {0x0020: {0x0021: 1}}.
C9_FieldValueTriggers ==
    \A i \in 1..Len(notified) :
        (notified[i].chan = KeyVehicle /\ notified[i].payload = "state:running") =>
            notified[i].sends =
                <<[op |-> "send", frameID |-> 32, msgType |-> 32, key |-> 33,
                   value |-> [int |-> 1]]>>

\* the store operation C10 expects for an inner battery entry, <<>> for other keys
C10_Expected(k, v) ==
    LET key == IF k < TypeBatterySlot2State THEN KeyBatterySlot1 ELSE KeyBatterySlot2
    IN  IF k \in {TypeBatterySlot1State, TypeBatterySlot2State}
        THEN <<[op |-> "WriteInt", key |-> key, field |-> "state", value |-> ToString(v)]>>
        ELSE IF k \in {TypeBatterySlot1Presence, TypeBatterySlot2Presence}
        THEN <<[op |-> "WriteString", key |-> key, field |-> "present",
                value |-> IF v # 0 THEN "true" ELSE "false"]>>
        ELSE IF k \in {TypeBatterySlot1CycleCount, TypeBatterySlot2CycleCount}
        THEN <<[op |-> "WriteInt", key |-> key, field |-> "cycle-count",
                value |-> ToString(v)]>>
        ELSE <<[op |-> "WriteInt", key |-> key, field |-> "charge", value |-> ToString(v)]>>

\* C10: an envelope {0x00E0: {k: v}} with k one of 0x00E2, 0x00E3, 0x00E6,
\* 0x00E9 is written to the state, present, cycle-count, charge field of
\* battery:0, and with k one of 0x00EE, 0x00EF, 0x00F2, 0x00F5 to the same
\* fields of battery:1.
C10_BatteryRouting ==
    \A i \in 1..Len(handled) :
        LET top == handled[i].env.payload.top
        IN  (/\ handled[i].env.payload.decodes
             /\ Len(top) = 1
             /\ top[1].key = TypeBattery
             /\ "map" \in DOMAIN top[1].params
             /\ Len(top[1].params.map) = 1
             /\ top[1].params.map[1].key.int \in
                    {TypeBatterySlot1State, TypeBatterySlot1Presence,
                     TypeBatterySlot1CycleCount, TypeBatterySlot1Charge,
                     TypeBatterySlot2State, TypeBatterySlot2Presence,
                     TypeBatterySlot2CycleCount, TypeBatterySlot2Charge}
             /\ "int" \in DOMAIN top[1].params.map[1].value)
            => handled[i].ops = C10_Expected(top[1].params.map[1].key.int,
                                             top[1].params.map[1].value.int)

(***************************************************************************)
(* Claims about the outbound path, checked under SpecOutbound and          *)
(* SpecCommands.                                                           *)
(***************************************************************************)
\* the inner key C11 names for a field of a battery slot
C11_Key(chan, field) ==
    IF chan = "battery:0"
    THEN (IF field = "state" THEN 226 ELSE IF field = "present" THEN 227
          ELSE IF field = "cycle-count" THEN 230 ELSE 233)
    ELSE (IF field = "state" THEN 238 ELSE IF field = "present" THEN 239
          ELSE IF field = "cycle-count" THEN 242 ELSE 245)

\* C11: an outbound battery update carries an envelope with top-level key
\* 0x00E0 whose single inner key is 0x00E2 / 0x00E3 / 0x00E6 / 0x00E9 (state /
\* presence / cycle-count / charge) for slot 1 and 0x00EE / 0x00EF / 0x00F2 /
\* 0x00F5 for slot 2.
C11_BatteryUpdateKeys ==
    \A i \in 1..Len(notified) :
        (/\ notified[i].chan \in {"battery:0", "battery:1"}
         /\ notified[i].payload \in {"state", "present", "cycle-count", "charge"})
        => /\ notified[i].sends # <<>>
           /\ notified[i].sends[1].msgType = 224
           /\ notified[i].sends[1].key = C11_Key(notified[i].chan, notified[i].payload)

\* the frames C12 names for a popped string
C12_Expected(command) ==
    LET k == IF command = "advertising-start-with-whitelisting" THEN 1
             ELSE IF command = "advertising-restart-no-whitelisting" THEN 2
             ELSE IF command = "advertising-stop" THEN 3
             ELSE IF command = "delete-bond" THEN 4
             ELSE IF command = "delete-all-bonds" THEN 5
             ELSE 0
    IN  IF k # 0
        THEN <<[op |-> "send", frameID |-> 0, msgType |-> 43520, key |-> 43520 + k,
                value |-> [int |-> 0]]>>
        ELSE IF command = "remove"
        THEN <<[op |-> "send", frameID |-> 131, msgType |-> 41091, key |-> 41091,
                value |-> [int |-> 1]]>>
        ELSE <<>>

\* the frames C12 names for the first n popped strings, in pop order
RECURSIVE C12_Frames(_)
C12_Frames(n) ==
    IF n = 0 THEN <<>> ELSE C12_Frames(n - 1) \o C12_Expected(popped[n].command)

\* C12: for each string popped from scooter:bluetooth, in pop order, the five
\* advertising and bond commands each hand exactly one frame
\* {0xAA00: {0xAA00+k: 0}}, k = 1..5, frame identifier 0x00, to the port;
\* remove hands over exactly one frame {0xA083: {0xA083: 1}}; any other
\* string hands over none.
C12_CommandFrames ==
    /\ \A i \in 1..Len(popped) : popped[i].sends = C12_Expected(popped[i].command)
    /\ sent = C12_Frames(Len(popped))

\* delete-all-bonds was popped, then remove
C12_Witness ==
    /\ Len(popped) = 2
    /\ popped[1].command = "delete-all-bonds"
    /\ popped[2].command = "remove"
    /\ Len(sent) = 2

(***************************************************************************)
(* Claims about the inbound handlers, checked under SpecHandlers.          *)
(***************************************************************************)
\* the handled frame h carried {msgType: {k: v}} with one inner entry
IsSingle(h, msgType) ==
    /\ h.env.payload.decodes
    /\ Len(h.env.payload.top) = 1
    /\ h.env.payload.top[1].key = msgType
    /\ "map" \in DOMAIN h.env.payload.top[1].params
    /\ Len(h.env.payload.top[1].params.map) = 1

\* the inner key and value of such a frame
InnerKey(h) == h.env.payload.top[1].params.map[1].key.int
InnerValue(h) == h.env.payload.top[1].params.map[1].value

\* the handled frame h carried {0x0000: "scooter:blinker right"}
IsDirectEvent(h) ==
    /\ h.env.payload.decodes
    /\ Len(h.env.payload.top) = 1
    /\ h.env.payload.top[1].key = 0
    /\ h.env.payload.top[1].params = [str |-> "scooter:blinker right"]

\* C13 as stated: an inbound envelope that maps key 0x0000 directly to the
\* string "scooter:blinker right" results in exactly one left-push of "right"
\* onto the list scooter:blinker.
C13_DirectEventString ==
    \A i \in 1..Len(handled) :
        IsDirectEvent(handled[i]) =>
            handled[i].ops = <<[op |-> "LPush", key |-> "scooter:blinker", value |-> "right"]>>

\* C13 amended: an inbound envelope that maps key 0x0000 to an inner map of
\* one entry whose value is the string "scooter:blinker right" results in
\* exactly one left-push of "right" onto scooter:blinker; an envelope that
\* maps 0x0000 directly to the string causes no store operation.
C13_InnerEventString ==
    \A i \in 1..Len(handled) :
        /\ (IsSingle(handled[i], 0) /\ InnerValue(handled[i]) = [str |-> "scooter:blinker right"])
           => handled[i].ops =
                  <<[op |-> "LPush", key |-> "scooter:blinker", value |-> "right"]>>
        /\ IsDirectEvent(handled[i]) => handled[i].ops = <<>>

\* {0x0000: {0x0001: "scooter:blinker right"}} was handled twice
C13_Witness ==
    /\ Len(handled) = 2
    /\ IsSingle(handled[2], 0)
    /\ InnerKey(handled[2]) = 1
    /\ lists = <<[key |-> "scooter:blinker", value |-> "right"],
                 [key |-> "scooter:blinker", value |-> "right"]>>

\* the seven event strings with their list key and item
C14_Whitelist ==
    {<<"scooter:state unlock", "scooter:state", "unlock">>,
     <<"scooter:state lock", "scooter:state", "lock">>,
     <<"scooter:seatbox open", "scooter:seatbox", "open">>,
     <<"scooter:blinker right", "scooter:blinker", "right">>,
     <<"scooter:blinker left", "scooter:blinker", "left">>,
     <<"scooter:blinker both", "scooter:blinker", "both">>,
     <<"scooter:blinker off", "scooter:blinker", "off">>}

\* C14: an event value delivered to the event handler causes exactly one
\* left-push of the item onto the named list key, and nothing else, when it is
\* one of the seven whitelisted strings; every other string and every
\* non-string value causes no store operation.
C14_EventWhitelist ==
    \A i \in 1..Len(handled) :
        IsSingle(handled[i], 0) =>
            LET v == InnerValue(handled[i])
                hits == {t \in C14_Whitelist : "str" \in DOMAIN v /\ t[1] = v.str}
            IN  /\ hits = {} => handled[i].ops = <<>>
                /\ \A t \in hits :
                       handled[i].ops = <<[op |-> "LPush", key |-> t[2], value |-> t[3]]>>

\* a seatbox event was handled and its item is the only element of the lists
C14_Witness ==
    /\ Len(handled) = 1
    /\ IsSingle(handled[1], 0)
    /\ InnerValue(handled[1]) = [str |-> "scooter:seatbox open"]
    /\ lists = <<[key |-> "scooter:seatbox", value |-> "open"]>>
    /\ store = <<>> /\ sent = <<>>

\* bit mask m is set in the two's-complement integer v
MaskSet(v, m) == (v \div m) % 2 = 1

\* the status alert bits in the order C15 gives, with their messages
C15_Alerts ==
    << <<4, "Minimum Current Alert Threshold Exceeded">>,
       <<64, "Maximum Current Alert Threshold Exceeded">>,
       <<256, "Minimum Voltage Alert Threshold Exceeded">>,
       <<4096, "Maximum Voltage Alert Threshold Exceeded">>,
       <<512, "Minimum Temperature Alert Threshold Exceeded">>,
       <<8192, "Maximum Temperature Alert Threshold Exceeded">>,
       <<1024, "Minimum SOC Alert Threshold Exceeded">>,
       <<16384, "Maximum SOC Alert Threshold Exceeded">> >>

Triggered(n, k, f) == n.chan = k /\ n.payload = f

\* the string the store held in k.f when the subscriber handled n, if any
Held(n, k, f) == <<k, f>> \in DOMAIN n.st

\* the power-management state mapping of C18
C18_Map ==
    ("running" :> 1) @@ ("suspending" :> 0) @@ ("hibernating" :> 2) @@
    ("hibernating-l2" :> 2) @@ ("suspending-imminent" :> 3) @@
    ("hibernating-imminent" :> 4) @@ ("reboot" :> 5) @@ ("reboot-imminent" :> 1)

\* C18: UpdatePowerManagementState sends (power-management, 1, n) with n the
\* mapped state, 1 for any other string; when and only when the state is
\* hibernating-l2 and the first send succeeded it then sends a second frame
\* (power-management, 2, 1), after the first.
C18_PowerManagementFrames ==
    \A i \in 1..Len(notified) :
        (/\ Triggered(notified[i], "power-manager", "state")
         /\ Held(notified[i], "power-manager", "state"))
        => LET s == notified[i].st[<<"power-manager", "state">>]
               n == IF s \in DOMAIN C18_Map THEN C18_Map[s] ELSE 1
               sends == notified[i].sends
           IN  /\ Len(sends) \in {1, 2}
               /\ sends[1] = [op |-> "send", frameID |-> 0, msgType |-> 2048,
                              key |-> 2049, value |-> [int |-> n]]
               /\ Len(sends) = 2 <=> (s = "hibernating-l2" /\ notified[i].ok[1])
               /\ Len(sends) = 2 =>
                      sends[2] = [op |-> "send", frameID |-> 0, msgType |-> 2048,
                                  key |-> 2050, value |-> [int |-> 1]]

\* the state hibernating-l2 was sent with its level request, in that order
C18_Witness ==
    /\ Len(notified) = 1
    /\ notified[1].st = (<<"power-manager", "state">> :> "hibernating-l2")
    /\ Len(sent) = 2
    /\ sent[1].key = 2049 /\ sent[1].value = [int |-> 2]
    /\ sent[2].key = 2050 /\ sent[2].value = [int |-> 1]

\* the state mapping of C19, and the decimal strings of the scenario
C19_Map ==
    ("standby" :> 0) @@ ("parked" :> 1) @@ ("ready-to-drive" :> 2) @@
    ("shutting-down" :> 3) @@ ("updating" :> 4) @@ ("off" :> 5) @@
    ("running" :> 1) @@ ("closed" :> 0) @@ ("open" :> 1)

C19_Decimal == ("2" :> 2) @@ ("3" :> 3) @@ ("7" :> 7) @@ ("65537" :> 65537) @@ ("-1" :> -1)

\* the handlebar part of C19: 1 exactly when the store string is "unlocked"
C19_Handlebar ==
    \A i \in 1..Len(notified) :
        (/\ Triggered(notified[i], "vehicle", "handlebar:lock-sensor")
         /\ Held(notified[i], "vehicle", "handlebar:lock-sensor"))
        => notified[i].sends[1].value =
               [int |-> IF notified[i].st[<<"vehicle", "handlebar:lock-sensor">>] = "unlocked"
                        THEN 1 ELSE 0]

C20_Fields ==
    {<<"vehicle", "state">>, <<"vehicle", "seatbox:lock">>,
     <<"vehicle", "handlebar:lock-sensor">>, <<"engine-ecu", "odometer">>,
     <<"system", "mdb-version">>, <<"power-manager", "state">>}
    \cup {<<k, f>> : k \in {"battery:0", "battery:1"},
                     f \in {"state", "present", "cycle-count", "charge"}}

\* strings no update function can parse
C20_Garbage == {"bogus", "x"}

\* the read of k.f failed when the subscriber handled n
C20_ReadFails(n, k, f) ==
    \/ ~Held(n, k, f)
    \/ n.st[<<k, f>>] \in C20_Garbage /\ <<k, f>> # <<"system", "mdb-version">>

\* every error an update returned is the error of its port write
C20_NoReadError ==
    \A i \in 1..Len(notified) :
        \A j \in 1..Len(notified[i].errs) : notified[i].errs[j] = ~notified[i].ok[j]

\* C20 as stated: every outbound update function whose store field is
\* missing or cannot be parsed still sends its frame, carrying 0 (the empty
\* string for the firmware version), and never returns the read failure.
C20_DefaultZero ==
    /\ C20_NoReadError
    /\ \A i \in 1..Len(notified) : \A p \in C20_Fields :
           (Triggered(notified[i], p[1], p[2]) /\ C20_ReadFails(notified[i], p[1], p[2]))
           => /\ notified[i].sends # <<>>
              /\ notified[i].sends[1].value =
                     IF p[1] = "system" THEN [str |-> ""] ELSE [int |-> 0]

\* C20 amended: as stated, except that the power-management state defaults
\* to running and its frame carries 1.
C20_DefaultValue ==
    /\ C20_NoReadError
    /\ \A i \in 1..Len(notified) : \A p \in C20_Fields :
           (Triggered(notified[i], p[1], p[2]) /\ C20_ReadFails(notified[i], p[1], p[2]))
           => /\ notified[i].sends # <<>>
              /\ notified[i].sends[1].value =
                     IF p[1] = "system" THEN [str |-> ""]
                     ELSE IF p[1] = "power-manager" THEN [int |-> 1]
                     ELSE [int |-> 0]

\* the mileage update ran with engine-ecu.odometer unparsable and sent 0
C20_Witness ==
    /\ Len(notified) = 1
    /\ notified[1].st = (<<"engine-ecu", "odometer">> :> "x")
    /\ notified[1].errs = <<FALSE>>
    /\ sent = <<[op |-> "send", frameID |-> 64, msgType |-> 41024, key |-> 41026,
                 value |-> [int |-> 0]]>>

(***************************************************************************)
(* Claims about the encoder and the checksum, checked under SpecCodec and  *)
(* SpecCRC.                                                                *)
(***************************************************************************)
\* CRC-16/ARC computed bit by bit: reflected polynomial 0xA001, initial
\* value 0, no final XOR.  XorA001(v) is v XOR 0xA001 for v < 2^15.
XorA001(v) ==
    v + 32768
      + (IF (v \div 8192) % 2 = 1 THEN -8192 ELSE 8192)
      + (IF v % 2 = 1 THEN -1 ELSE 1)

RefBit(crc) == IF crc % 2 = 1 THEN XorA001(crc \div 2) ELSE crc \div 2

RECURSIVE RefBits(_, _)
RefBits(crc, n) == IF n = 0 THEN crc ELSE RefBits(RefBit(crc), n - 1)

RefByte(crc, b) == RefBits(BitXor(crc, b), 8)

RECURSIVE RefRange(_, _, _, _)
RefRange(data, lo, hi, crc) ==
    IF lo > hi THEN crc
    ELSE IF lo = hi THEN RefByte(crc, data[lo])
    ELSE LET mid  == (lo + hi) \div 2
             left == RefRange(data, lo, mid, crc)
         IN  IF left >= 0 THEN RefRange(data, mid + 1, hi, left) ELSE left

RefCRC(data) == RefRange(data, 1, Len(data), 0)

C25_Expected(id, p) ==
    IF Len(p) > 1024 THEN <<>>
    ELSE LET header == <<246, 217, id, Len(p) % 256, Len(p) \div 256>>
             hcrc == RefCRC(header)
             pcrc == RefCRC(p)
         IN  header \o <<hcrc % 256, hcrc \div 256>> \o p \o <<pcrc % 256, pcrc \div 256>>

\* C25: WriteWithFrameID(id, p) with |p| <= 1024 hands the port, in one write,
\* exactly the 9+|p| bytes F6 D9 id len-lo len-hi hcrc-lo hcrc-hi p pcrc-lo
\* pcrc-hi, hcrc being CRC-16/ARC of the first five bytes and pcrc CRC-16/ARC
\* of p alone; with |p| > 1024 it writes no byte.
C25_FrameBytes ==
    [][(phase = "tx" /\ phase' = "rx")
        => /\ line' = line \o C25_Expected(txId, txData)
           /\ Len(txData) <= 1024 => Len(line') = Len(line) + 9 + Len(txData)
           /\ Len(txData) > 1024 => line' = line]_vars

\* the frame of section 3's worked example is on the line, nothing read yet
C25_Witness ==
    /\ phase = "rx" /\ garbage = <<>> /\ usock = NewUSOCK
    /\ txId = 192 /\ txData = <<161, 1, 192, 1>>
    /\ line = <<246, 217, 192, 4, 0, 241, 181, 161, 1, 192, 1, 227, 252>>

\* C26: calculateCRC16 with seed 0 equals the bitwise CRC-16/ARC reference:
\* the local crc equals the reference CRC of the bytes consumed, crc16Table[i]
\* equals the reference CRC of the one-byte message i, and the table-driven
\* update of the current crc equals eight reference bit steps.
C26_MatchesReference ==
    /\ crcAcc = RefCRC(crcData)
    /\ Len(crcData) = 1 => crc16Table[crcData[1] + 1] = RefCRC(crcData)
    /\ \A b \in CrcBytes(Len(crcData) + 1) : crcStep(crcAcc, b) = RefByte(crcAcc, b)

\* the loop has consumed "12" and 0xFF
C26_Witness == crcData = <<49, 50, 255>> /\ crcAcc = 61188

\* C27: after a header with a valid header CRC that declares payload length
\* 0 the decoder consumes no payload byte: the payload stays empty and the
\* two bytes after the header CRC are the payload CRC, compared with the
\* CRC-16/ARC of the empty payload, so the empty frame is delivered.
C27_ZeroLengthPayload ==
    /\ (usock.state \in {StatePayload, StatePayloadCRC1, StatePayloadCRC2}
          /\ usock.frame.PayloadLen = 0)
        => usock.frame.Payload = <<>> /\ usock.buffer = <<>>
    /\ (phase = "rx" /\ line = <<>> /\ txData = <<>> /\ garbage = <<>> /\ noisePos = 0)
        => Len(handlerCalls) = 1 /\ handlerCalls[1].Data = <<>>

\* C28: in Sync2 the byte 0xD9 moves the decoder to Id and every other byte,
\* 0xF6 included, moves it to Sync1 (not to Sync2: the byte is not taken as
\* a new first sync byte); in Sync1 every byte other than 0xF6 leaves the
\* decoder in Sync1 with its buffer unchanged.
C28_SyncStates ==
    [][(phase = "rx" /\ line # <<>> /\ line' = Tail(line))
        => LET b == Head(line)
           IN  /\ (usock.state = StateSync2 /\ b = 217)
                   => usock'.state = StateFrameID
               /\ (usock.state = StateSync2 /\ b # 217)
                   => usock'.state = StateSync1 /\ usock'.buffer = usock.buffer
               /\ (usock.state = StateSync1 /\ b # 246)
                   => usock'.state = StateSync1 /\ usock'.buffer = usock.buffer]_vars

\* the line began with F6 F6: the second F6 has sent the decoder back to Sync1
C28_Witness ==
    /\ phase = "rx" /\ garbage = <<246, 246>>
    /\ Len(line) = 9 + Len(txData)
    /\ usock.state = StateSync1 /\ usock.buffer = <<246>>

(***************************************************************************)
(* Claims about the reset-info handler, checked under SpecInbound.         *)
(***************************************************************************)
\* the frame {0xA020: {0xA023: 0}}
C29_Ack ==
    [op |-> "send", frameID |-> 32, msgType |-> 40992, key |-> 40995, value |-> [int |-> 0]]

\* the handled frame h carried {0xA020: {0xA021: [reason, count]}}, two integers
C29_IsResetInfo(h) ==
    /\ IsSingle(h, 40992)
    /\ InnerKey(h) = 40993
    /\ "arr" \in DOMAIN InnerValue(h)
    /\ Len(InnerValue(h).arr) = 2
    /\ \A k \in 1..2 : "int" \in DOMAIN InnerValue(h).arr[k]

C30_Stored == ("0" :> 0) @@ ("42" :> 42) @@ ("65537" :> 65537)

\* the fields of C30: odometer, cycle-count and charge
C30_Fields ==
    {<<"engine-ecu", "odometer">>}
    \cup {<<k, f>> : k \in {"battery:0", "battery:1"}, f \in {"cycle-count", "charge"}}

\* C30: the integer carried by an outbound mileage frame equals the integer
\* stored in engine-ecu.odometer for every non-negative stored value, values
\* above 65535 included; likewise for the cycle-count and charge frames.
C30_IntegerUnchanged ==
    \A i \in 1..Len(notified) : \A kf \in C30_Fields :
        (/\ Triggered(notified[i], kf[1], kf[2])
         /\ Held(notified[i], kf[1], kf[2])
         /\ notified[i].st[kf] \in DOMAIN C30_Stored)
        => /\ Len(notified[i].sends) = 1
           /\ notified[i].sends[1].value = [int |-> C30_Stored[notified[i].st[kf]]]

(***************************************************************************)
(* Claims about start-up and shutdown, checked under SpecLifecycle.        *)
(***************************************************************************)
\* the six initialisation messages as (message type, subtype, value):
\* data-stream 0x00C0, ble-version 0xA000, ble-param 0xA080, ble-command 0xAA00
C21_Frames ==
    << <<192, 1, 0>>, <<40960, 1, 0>>, <<41088, 1, 0>>,
       <<192, 1, 1>>, <<192, 2, 1>>, <<43520, 2, 0>> >>

\* the message types of the initial state updates, in the order of main:
\* vehicle state, seatbox, handlebar (0x0020), mileage, firmware version
\* (0xA040), four values for each battery slot (0x00E0), power management
\* (0x0800)
C21_PushTypes ==
    <<32, 32, 32, 41024, 41024, 224, 224, 224, 224, 224, 224, 224, 224, 2048>>

C21_IsFrame(m, t) ==
    m.msgType = t[1] /\ m.key = t[1] + t[2] /\ m.value = [int |-> t[3]]

\* C21: the six initialisation frames are sent in the order (data-stream, 1,
\* 0), (ble-version, 1, 0), (ble-param, 1, 0), (data-stream, 1, 1),
\* (data-stream, 2, 1), (ble-command, 2, 0); each is attempted whatever the
\* outcome of the earlier sends; every initial state update is sent after
\* the sixth.
C21_InitThenPush ==
    /\ \A i \in 1..Len(mainLog) :
          IF i <= 6
          THEN /\ mainLog[i].call = "init"
               /\ Len(mainLog[i].sends) = 1
               /\ C21_IsFrame(mainLog[i].sends[1], C21_Frames[i])
          ELSE /\ mainLog[i].call = "push"
               /\ mainLog[i].sends # <<>>
               /\ \A j \in 1..Len(mainLog[i].sends) :
                      mainLog[i].sends[j].msgType = C21_PushTypes[i - 6]
    /\ \A i \in 1..Len(sent) :
          IF i <= 6 THEN C21_IsFrame(sent[i], C21_Frames[i])
          ELSE sent[i].msgType \in {32, 41024, 224, 2048}
    /\ mainPc \notin {"start", "init"} => Len(mainLog) >= 6 /\ Len(sent) >= 6
    /\ mainPc \notin {"start", "init", "push"} => Len(mainLog) = 20 /\ Len(sent) >= 20

\* the first and the third initialisation send failed, the sixth succeeded,
\* and all fourteen initial updates have been sent
C21_Witness ==
    /\ mainPc = "wait"
    /\ Len(mainLog) = 20
    /\ mainLog[1].err /\ ~mainLog[2].err /\ mainLog[3].err /\ ~mainLog[6].err
    /\ Len(sent) = 20

\* C22: after the stop signal main returns only once the command watcher
\* task, every subscriber task and the serial receive task have finished.
C22_ReturnsAfterTasks ==
    mainPc = "returned" => (watcher = "done" /\ subscribers = {} /\ reader = "done")

\* C23: USOCK.Close always terminates: once Close is called the receive task
\* exits, Close stops waiting for it and the port handle is closed, also when
\* the receive task is inside a blocking read and no byte arrives.
C23_CloseTerminates == stopChan ~> (reader = "done" /\ portClosed)

\* C24: once Stop has closed the stop channel the command watcher task
\* eventually exits, also when scooter:bluetooth stays empty and the store
\* raises no error.
C24_WatcherExits == stopCh ~> (watcher = "done")

(***************************************************************************)
(* Claims about frames the handler drops, checked under SpecService.       *)
(***************************************************************************)
\* the payload fails decoding, has no or several top-level keys, has a
\* top-level value that is no map, or has an empty inner map
C31_Malformed(payload) ==
    \/ ~payload.decodes
    \/ Len(payload.top) # 1
    \/ "map" \notin DOMAIN payload.top[1].params
    \/ payload.top[1].params.map = <<>>

C31_EmptyWorld ==
    [store |-> <<>>, lists |-> <<>>, chans |-> NoNotifications, sent |-> <<>>]

\* the effect of the well-formed frames among the first i handled, in the
\* order in which they were handled
RECURSIVE C31_Replay(_)
C31_Replay(i) ==
    IF i = 0 THEN C31_EmptyWorld
    ELSE IF C31_Malformed(handled[i].env.payload) THEN C31_Replay(i - 1)
    ELSE applyOps(C31_Replay(i - 1), handled[i].ops, "inbound", 1)

\* C31: a payload that fails envelope decoding, has a number of top-level
\* keys other than one, has a top-level value that is no map, or has an empty
\* inner map causes no store write, delete, push or publish and no outbound
\* frame; the frames handled before and after it have the effect they have
\* without it
C31_DroppedWithoutEffect ==
    /\ \A i \in 1..Len(handled) :
           C31_Malformed(handled[i].env.payload) => handled[i].ops = <<>>
    /\ (npub = 0 /\ notified = <<>>) =>
           [store |-> store, lists |-> lists, chans |-> chans, sent |-> sent]
               = C31_Replay(Len(handled))

\* a frame of each dropped kind has been handled, and the pairing pin of the
\* frame that came after it is in the store and published
C31_Witness ==
    /\ Len(handled) = 2
    /\ handled[1].seq = 1
    /\ handled[1].env.frameID = 128 /\ Len(handled[1].env.payload.top) = 2
    /\ handled[2].env = PinDisplayEnvelope
    /\ npub = 0 /\ notified = <<>>
    /\ store = (<<KeyBLEPairingPin, "pin-code">> :> "1234")
    /\ Len(chans[KeyBLEPairingPin]) = 1

(***************************************************************************)
(* Claims about envelopes with several entries, checked under SpecInbound. *)
(***************************************************************************)
\* what the handler does for the entry e alone under the message type t
C32_Single(t, e) ==
    LET p == Envelope(t, <<e>>).payload
    IN  HandleUSockMessage(t % 256, p, CHOOSE o \in RangeOrders(rangeLen(p)) : TRUE)

\* the entries es taken one at a time in the order o
RECURSIVE C32_Concat(_, _, _, _)
C32_Concat(t, es, o, i) ==
    IF i > Len(o) THEN <<>>
    ELSE C32_Single(t, es[o[i]]) \o C32_Concat(t, es, o, i + 1)

\* inner keys whose value is coerced to an integer, and to a string
C32_IntKeys ==
    {TypeAuxBattery + TypeAuxBatteryVoltage, TypeAuxBattery + TypeAuxBatteryCharge,
     TypeScooterInfo + TypeMileage, TypeBatteryInfo + 1,
     TypeBatteryInfo + TypeBatteryInfoProtectionStatus}

C32_StrKeys ==
    {TypeAuxBattery + TypeAuxBatteryChargerStatus, TypeScooterInfo + TypeSoftwareVersion,
     TypeBLEPairingPinDisplay, TypeBLEParam + TypeBLEParamMACAddress,
     TypeBatteryInfo + TypeBatteryInfoUniqueID}

\* inner keys that no handler knows
C32_UnknownKeys == {TypeAuxBattery + 9, TypeScooterInfo + 9, TypeBatteryInfo + 19}

\* the entry's value fails its coercion, or its subtype is unknown
C32_Inert(e) ==
    \/ "int" \notin DOMAIN e.key
    \/ e.key.int \in C32_UnknownKeys
    \/ e.key.int \in C32_IntKeys /\ "int" \notin DOMAIN e.value
    \/ e.key.int \in C32_StrKeys /\ "str" \notin DOMAIN e.value

\* C32: the operations of an envelope are those of its entries, each taken
\* exactly once under the envelope's message type, in the order of the range;
\* an entry whose value fails its coercion or whose subtype is unknown
\* contributes no operation, and the other entries contribute theirs
C32_EachEntryOnce ==
    \A i \in 1..Len(handled) :
        LET p == handled[i].env.payload
        IN  (p.decodes /\ Len(p.top) = 1 /\ "map" \in DOMAIN p.top[1].params) =>
                LET es == p.top[1].params.map
                    t == p.top[1].key
                IN  /\ \E o \in RangeOrders(Len(es)) :
                           handled[i].ops = C32_Concat(t, es, o, 1)
                    /\ \A j \in 1..Len(es) : C32_Inert(es[j]) => C32_Single(t, es[j]) = <<>>
                    /\ Len(handled[i].ops) >=
                           Cardinality({j \in 1..Len(es) :
                                           ~C32_Inert(es[j]) /\ es[j].key.int \in
                                               C32_IntKeys \cup C32_StrKeys})

\* an aux-battery envelope of four entries has been handled: the charge that
\* is no integer and the unknown subtype left nothing, the charger status and
\* the voltage are stored, the status first
C32_Witness ==
    /\ handled # <<>>
    /\ handled[1].up
    /\ Len(handled[1].env.payload.top) = 1
    /\ handled[1].env.payload.top[1].key = TypeAuxBattery
    /\ Len(handled[1].env.payload.top[1].params.map) = 4
    /\ handled[1].ops = << WriteString("aux-battery", "charge-status", "charging"),
                           WriteInt("aux-battery", "voltage", 7) >>
    /\ DOMAIN store = {<<"aux-battery", "charge-status">>, <<"aux-battery", "voltage">>}

(***************************************************************************)
(* Claims about the subscribers, checked under SpecOutbound.               *)
(***************************************************************************)
\* the strings of the present field that are no decimal integer
C33_NonIntegers == {"true", "false", "bogus"}

\* C33: a notification for field present on battery:0 or battery:1 makes the
\* subscriber hand two frames of that slot to the port, the presence frame
\* first and the cycle-count frame second, also when the presence send returns
\* an error; a present value stored as "true" or "1" is sent as 1, every other
\* string that is no integer as 0
C33_PresenceThenCycleCount ==
    \A i \in 1..Len(notified) :
        LET n == notified[i]
            slot2 == n.chan = "battery:1"
        IN  (n.chan \in {"battery:0", "battery:1"} /\ n.payload = "present") =>
                /\ Len(n.sends) = 2
                /\ n.sends[1].msgType = TypeBattery /\ n.sends[2].msgType = TypeBattery
                /\ n.sends[1].key =
                       TypeBattery + (IF slot2 THEN TypeBatterySlot2Presence
                                      ELSE TypeBatterySlot1Presence)
                /\ n.sends[2].key =
                       TypeBattery + (IF slot2 THEN TypeBatterySlot2CycleCount
                                      ELSE TypeBatterySlot1CycleCount)
                /\ Len(n.errs) = 2 /\ n.errs[1] = ~n.ok[1] /\ n.errs[2] = ~n.ok[2]
                /\ <<n.chan, "present">> \in DOMAIN n.st =>
                       LET v == n.st[<<n.chan, "present">>]
                       IN  /\ v \in {"true", "1"} => n.sends[1].value = [int |-> 1]
                           /\ v \in C33_NonIntegers \ {"true"} =>
                                  n.sends[1].value = [int |-> 0]

\* the presence send of slot 2 failed and the cycle-count frame followed it
C33_Witness ==
    \E i \in 1..Len(notified) :
        /\ notified[i].chan = "battery:1" /\ notified[i].payload = "present"
        /\ notified[i].st = (<<"battery:1", "present">> :> "true")
        /\ ~notified[i].ok[1] /\ notified[i].ok[2]
        /\ Len(notified[i].sends) = 2
        /\ notified[i].sends[1].value = [int |-> 1]
        /\ sent = notified[i].sends

(***************************************************************************)
(* Claims about the delivered payload, checked under SpecCodec.            *)
(***************************************************************************)
\* C34: whenever the decoder delivers a frame to the handler, the delivered
\* payload has exactly as many bytes as the length declared in that frame's
\* header (Payload.Size = declared length), for every declared length
\* 0..1024 and every byte stream.
C34_SizeIsDeclaredLength ==
    \A i \in 1..Len(handlerCalls) :
        /\ handlerCalls[i].Size = handlerCalls[i].Len
        /\ Len(handlerCalls[i].Data) = handlerCalls[i].Len

\* what the inbound handler does with the envelope of the outbound frame m
C35_Inbound(m) ==
    HandleUSockMessage(m.frameID,
                       Envelope(m.msgType, <<[key |-> IntVal(m.key), value |-> m.value]>>).payload,
                       <<1>>)

\* the field the j-th frame of a notification for field f is about
C35_Field(f, j) == IF f = "present" /\ j = 2 THEN "cycle-count" ELSE f

\* C35: outbound and inbound battery keys agree: the inner key an outbound
\* update of a slot's state, presence, cycle count or charge puts on the wire
\* falls in the inbound router's range of the same slot, and the inbound
\* handler takes an entry with that key as the same field of the same slot
C35_BatteryKeysAgree ==
    \A i \in 1..Len(notified) :
        LET n == notified[i]
        IN  (/\ n.chan \in {KeyBatterySlot1, KeyBatterySlot2}
             /\ n.payload \in {"state", "present", "cycle-count", "charge"})
            => /\ n.sends # <<>>
               /\ \A j \in 1..Len(n.sends) :
                      LET ops == C35_Inbound(n.sends[j])
                      IN  /\ batterySlot(n.sends[j].key) =
                                 (IF n.chan = KeyBatterySlot2 THEN 2 ELSE 1)
                          /\ Len(ops) = 1
                          /\ ops[1].op \in {"WriteInt", "WriteString"}
                          /\ ops[1].key = n.chan
                          /\ ops[1].field = C35_Field(n.payload, j)

\* the charge of slot 2 has been sent under the inner key 0x01D5, which the
\* inbound router places in slot 2
C35_Witness ==
    \E i \in 1..Len(notified) :
        /\ notified[i].chan = KeyBatterySlot2 /\ notified[i].payload = "charge"
        /\ notified[i].st = (<<KeyBatterySlot2, "charge">> :> "42")
        /\ Len(notified[i].sends) = 1
        /\ notified[i].sends[1].key = 469
        /\ C35_Inbound(notified[i].sends[1]) = <<WriteInt(KeyBatterySlot2, "charge", 42)>>

(***************************************************************************)
(* Claims about the watcher after Stop, checked under SpecShutdown.        *)
(***************************************************************************)
\* the pops that returned after stopCh was closed, and the command frames
\* handed to the port after stopCh was closed
C36_LatePops == {i \in 1..Len(popped) : popped[i].late}
C36_LateFrames == {i \in 1..Len(popped) : popped[i].lateSend /\ popped[i].sends # <<>>}

\* C36: after Stop has closed the stop channel the command watcher pops the
\* command list at most once more and sends at most one further command
\* frame, the one of a pop that was blocking or in progress, before it exits
C36_AtMostOneMore ==
    /\ Cardinality(C36_LatePops) <= 1
    /\ Cardinality(C36_LateFrames) <= 1
    /\ \A i \in C36_LatePops : i = Len(popped)
    /\ watcher = "done" =>
           stopCh /\ \A i \in C36_LatePops : popped[i].lateSend

\* Stop came while the watcher was blocked in BRPop; two commands were pushed
\* after it; the watcher popped and sent one of them, exited, and the other
\* is still on the list
C36_Witness ==
    /\ stopCh /\ watcher = "done"
    /\ Len(popped) = 1 /\ popped[1].late /\ popped[1].lateSend
    /\ popped[1].sends # <<>>
    /\ Len(cmds) = 1
    /\ sent[Len(sent)] = popped[1].sends[1]

(***************************************************************************)
(* Claims about changes that overtake their notification, checked under    *)
(* SpecPending.                                                            *)
(***************************************************************************)
\* the fields whose notification triggers one update, and the integer sent
\* for some of their values
C37_Fields ==
    {<<KeyVehicle, "state">>, <<KeyVehicle, "seatbox:lock">>, <<KeyMileage, "odometer">>,
     <<KeyBatterySlot1, "charge">>, <<KeyBatterySlot2, "cycle-count">>}

C37_Sent ==
    ("parked" :> 1) @@ ("ready-to-drive" :> 2) @@ ("standby" :> 0) @@ ("off" :> 5) @@
    ("open" :> 1) @@ ("closed" :> 0) @@ ("42" :> 42) @@ ("0" :> 0) @@ ("7" :> 7)

\* the notifications still waiting on the channels
C37_Waiting == Len(chans[KeyVehicle]) + Len(chans[KeyBatterySlot1])
               + Len(chans[KeyBatterySlot2]) + Len(chans[KeyPowerManager])
               + Len(chans[KeyMileage]) + Len(chans[KeyFirmwareVersion])
               + Len(chans[KeyBLEPairingPin])

C38_RemovalFrame ==
    [op |-> "send", frameID |-> 131, msgType |-> 41091, key |-> 41091, value |-> [int |-> 1]]

C38_Pin == <<"ble", "pin-code">>

\* C38: handling an inbound removal signal 0xA083 leaves pin-code in the ble
\* hash as a present field with the empty string and makes exactly one
\* publish, with payload "pin-code:", on channel ble; a notification for
\* field pin-code that finds the empty pin makes the subscriber send the
\* removal frame {0xA083: {0xA083: 1}}
C38_RemovalThenNotification ==
    [][ /\ \A h \in pending :
               (h \notin pending' /\ h.env \in {PinRemoveEnvelope, PinRemoveSignal}) =>
                   /\ C38_Pin \in DOMAIN store' /\ store'[C38_Pin] = ""
                   /\ chans' = [chans EXCEPT !["ble"] =
                                    Append(@, [payload |-> "pin-code:", cause |-> "inbound",
                                               written |-> ""])]
                   /\ sent' = sent
        /\ (/\ Len(notified') = Len(notified) + 1
            /\ chans["ble"] # <<>> /\ chans'["ble"] = Tail(chans["ble"])
            /\ Head(chans["ble"]).payload = "pin-code"
            /\ C38_Pin \in DOMAIN store /\ store[C38_Pin] = "")
           => sent' = Append(sent, C38_RemovalFrame)
      ]_vars

\* the removal signal was handled, its own publish was taken off the channel
\* without a frame, and the later notification for pin-code sent the removal
\* frame
C38_Witness ==
    /\ Len(handled) = 1 /\ handled[1].env = PinRemoveSignal
    /\ npub = 1
    /\ Len(notified) = 2
    /\ notified[1].cause = "inbound" /\ notified[1].payload = "pin-code:"
    /\ notified[1].sends = <<>>
    /\ notified[2].cause = "external" /\ notified[2].payload = "pin-code"
    /\ notified[2].st = (C38_Pin :> "")
    /\ sent = <<C38_RemovalFrame>>

(***************************************************************************)
(* Claims about the shared fault field, checked under SpecFault.           *)
(***************************************************************************)
\* what an integer entry of relative subtype 11 or 15 leaves in the fault
\* field: a message, or "" for a deleted field
C39_Message(sub, v) ==
    IF sub = 15
    THEN IF MaskSet(v, 4096) THEN "ChargeFET Failure-Short Detected"
         ELSE IF MaskSet(v, 2048) THEN "DischargeFET Failure-Short Detected"
         ELSE IF MaskSet(v, 1024) THEN "FET Failure open"
         ELSE ""
    ELSE IF \E m \in {4, 8, 16, 32} : MaskSet(v, m) THEN "Discharging fault"
         ELSE IF \E m \in {4096, 2048, 1024, 512, 16384, 8192} : MaskSet(v, m)
         THEN "Charging fault"
         ELSE ""

C39_Op(e) ==
    LET msg == C39_Message(e.key.int - 96, e.value.int)
    IN  IF msg = "" THEN [op |-> "HDel", key |-> "cb-battery:fault", field |-> "fault"]
        ELSE [op |-> "WriteString", key |-> "cb-battery:fault", field |-> "fault",
              value |-> msg]

\* the integer entries of relative subtype 11 or 15 of a handled envelope
C39_Entries(h) ==
    LET es == h.env.payload.top[1].params.map
    IN  {es[j] : j \in {j \in 1..Len(es) : /\ es[j].key.int \in {96 + 11, 96 + 15}
                                            /\ "int" \in DOMAIN es[j].value}}

C39_Fault == <<"cb-battery:fault", "fault">>

====
